---- MODULE Spec2Model ----
(***************************************************************************)
(* Model of the MOMO_AUDIO control core: the audio protocol engine         *)
(* (drivers/AUDIO.c) and the playback/record orchestrator and power        *)
(* sequencer (Control.c).                                                  *)
(*                                                                         *)
(* Every C routine is an operator that maps a state record to a state      *)
(* record; an action applies the operator of one handler (interrupt,       *)
(* timer callback, alarm callback or main-loop poll) to the current state. *)
(* Init is the state after ControlInit(), CfgRead() and AudioInit() with   *)
(* an audio power output configured (l_flgAudioActivate is true).          *)
(***************************************************************************)
EXTENDS Integers, Sequences, FiniteSets, TLC

(* ----------------------------- AUDIO_STATE ------------------------------ *)
AUDIO_STATE_OFF          == 0
AUDIO_STATE_POWER_ON     == 1
AUDIO_GET_WORK_STATUS    == 2
AUDIO_GET_SPACE_LEFT     == 3
AUDIO_GET_FILE_NUMBERS   == 4
AUDIO_STATE_SEND_VC      == 5
AUDIO_STATE_SEND_ST      == 6
AUDIO_STATE_SEND_IM      == 7
AUDIO_STATE_SEND_RQ      == 8
AUDIO_SEND_PLAYBACK      == 9
AUDIO_SEND_RECORD        == 10
AUDIO_SEND_PLAYBACK_STOP == 11
AUDIO_SEND_RECORD_STOP   == 12
AUDIO_STATE_OPERATIONAL  == 13
AUDIO_STATE_RECOVER      == 14

(* States whose entry sends a command frame (AudioSendCmdSeq cases). *)
CmdStates == AUDIO_GET_WORK_STATUS .. AUDIO_SEND_RECORD_STOP

(* ------------------------------ constants ------------------------------- *)
POWER_UP_DELAY    == 5
MAX_COM_ERROR_CNT == 10
WDOG_TIMEOUT      == 60
RX_BUFFER_SIZE    == 150
TX_BUFFER_SIZE    == 30
DUR_INVALID       == -1
MAX_RECORD_FILES  == 999

(* timer handle value "not running" *)
T_IDLE == 0

(* reply bytes of the FN-RM01 module *)
OP_CONNECT  == 202
OP_WORK     == 194
OP_SPACE    == 206
OP_FILES    == 197
RX_IGNORE   == 255
EOS         == 0

(* configured defaults PLAYBACK, RECORD, PLAYBACK_TYPE *)
DFLT_PLAY_TYPE             == 1
DFLT_KEEP_PLAYING_DURATION == 120
DFLT_KEEP_RECORD_DURATION  == 240

(* ------------------------------- bounds --------------------------------- *)
MaxRecordFileNumber == 1
MaxRand             == 1
MaxRxIdx            == 3
MaxRandOutcome      == 9
MaxTimeouts         == 3

(* --------------------------- model inputs ------------------------------- *)
(* bytes the peripheral may put on the wire: status bytes, reply opcodes,   *)
(* the power-up filler                                                      *)
RxBytes == {0, 1, 2, OP_CONNECT, OP_WORK, OP_SPACE, OP_FILES, RX_IGNORE}
(* the two data bytes of a space-left or file-count reply *)
DataHi == {0}
DataLo == {0, 5}

(* ID entries of CONFIG.TXT: {ID}:{KEEP_PLAYBACK}:{KEEP_RECORD}:{PLAYBACK_TYPE} *)
IdList == [ BIRD01 |-> [KeepPlayback |-> 5, KeepRecord |-> 10, PlayType |-> 2],
            BIRD02 |-> [KeepPlayback |-> 0, KeepRecord |-> 10, PlayType |-> DUR_INVALID] ]

(* transponder IDs the reader may report; BIRD99 has no entry *)
TransponderIDs == {"BIRD01", "BIRD02", "BIRD99"}

VARIABLES
    (* drivers/AUDIO.c *)
    l_flgInit, l_flgAudioOn, l_flgAudioIsOn, l_State, l_hdlWdog,
    l_flgTxComplete, l_ComErrorCnt, l_RxBuffer, l_RxIdx, l_CheckData,
    l_flgComCompleted, RecordFileNumber, digits, AudioPlaybackType,
    PlaybackFileNumber, l_flgIsPlayAction, l_flgIsRecordBlocked,
    l_flgIsRecAction, l_flgAudioInitIsDone, l_flgSingleAction, l_flgLocked,
    txIEN, l_flgAudioActivate,
    (* what the array buffer[] of AudioSendCmdSeq() holds when the routine  *)
    (* is entered: it is not initialized                                    *)
    buffer,
    (* configuration of the audio module (CONFIG.TXT: AUDIO_CFG_xx) *)
    g_AudioCfg_VC, g_AudioCfg_ST, g_AudioCfg_IM, g_AudioCfg_RQ,
    (* Control.c *)
    PwrOut, l_PlayType, l_KeepPlayback, l_KeepRecord, l_hdlPlayRec,
    l_flgPlaybackRun, l_flgPlaybackIsRun, l_flgAudioRfidPower,
    l_flgTwiceIDLocked, l_flgAudioPlayRun, l_flgAudioPlayStop,
    l_flgAudioRecRun, l_flgAudioRecStop, ctlPlaybackType,
    (* observation of the last handler: the frames it handed to SendCmd and *)
    (* the log lines it wrote                                               *)
    sent, log,
    (* history: a playback / record command was sent and its stop has not   *)
    (* completed (and the module was not switched off since)                *)
    playActive, recActive,
    (* history: a playback command was sent since the last ControlUpdateID() *)
    playSentSinceID,
    (* history of the current not-ready period, which a power-off starts    *)
    (* anew and which ends when the engine reports ready: "none" (no         *)
    (* poll found a request waiting for the engine), "logged" (such polls    *)
    (* wrote the locked line once, on the first of them), "silent" (the      *)
    (* first of them wrote no line), "twice" (a later one wrote it again)    *)
    lockedPeriod

vars == << l_flgInit, l_flgAudioOn, l_flgAudioIsOn, l_State, l_hdlWdog,
           l_flgTxComplete, l_ComErrorCnt, l_RxBuffer, l_RxIdx, l_CheckData,
           l_flgComCompleted, RecordFileNumber, digits, AudioPlaybackType,
           PlaybackFileNumber, l_flgIsPlayAction, l_flgIsRecordBlocked,
           l_flgIsRecAction, l_flgAudioInitIsDone, l_flgSingleAction,
           l_flgLocked, txIEN, l_flgAudioActivate, buffer,
           g_AudioCfg_VC, g_AudioCfg_ST, g_AudioCfg_IM, g_AudioCfg_RQ,
           PwrOut, l_PlayType, l_KeepPlayback, l_KeepRecord, l_hdlPlayRec,
           l_flgPlaybackRun, l_flgPlaybackIsRun, l_flgAudioRfidPower,
           l_flgTwiceIDLocked, l_flgAudioPlayRun, l_flgAudioPlayStop,
           l_flgAudioRecRun, l_flgAudioRecStop, ctlPlaybackType,
           sent, log, playActive, recActive, playSentSinceID, lockedPeriod >>

(* The contents an uninitialized buffer[] may have: empty, the frame a   *)
(* previous call left on the stack, or bytes without a terminator within *)
(* the transmit buffer's size.  Only a configuration that makes          *)
(* AudioSendCmdSeq() read the array before writing it observes them.     *)
StackGarbage ==
    { << >>, <<126, 3, 171, 174, 126>>, <<126, 4, 210, 1, 215, 126>>,
      [i \in 1 .. TX_BUFFER_SIZE - 1 |-> 85] }
Uninitialized(r) ==
    IF r.g_AudioCfg_IM \in {0, 1, 2} THEN {<< >>} ELSE StackGarbage

(* The current state as one record, and its write-back (the record is *)
(* bound once, then written to the variables).                         *)
Cur ==
    [ l_flgInit |-> l_flgInit, l_flgAudioOn |-> l_flgAudioOn,
      l_flgAudioIsOn |-> l_flgAudioIsOn, l_State |-> l_State,
      l_hdlWdog |-> l_hdlWdog, l_flgTxComplete |-> l_flgTxComplete,
      l_ComErrorCnt |-> l_ComErrorCnt, l_RxBuffer |-> l_RxBuffer,
      l_RxIdx |-> l_RxIdx, l_CheckData |-> l_CheckData,
      l_flgComCompleted |-> l_flgComCompleted,
      RecordFileNumber |-> RecordFileNumber, digits |-> digits,
      AudioPlaybackType |-> AudioPlaybackType,
      PlaybackFileNumber |-> PlaybackFileNumber,
      l_flgIsPlayAction |-> l_flgIsPlayAction,
      l_flgIsRecordBlocked |-> l_flgIsRecordBlocked,
      l_flgIsRecAction |-> l_flgIsRecAction,
      l_flgAudioInitIsDone |-> l_flgAudioInitIsDone,
      l_flgSingleAction |-> l_flgSingleAction, l_flgLocked |-> l_flgLocked,
      txIEN |-> txIEN, l_flgAudioActivate |-> l_flgAudioActivate,
      buffer |-> buffer,
      g_AudioCfg_VC |-> g_AudioCfg_VC, g_AudioCfg_ST |-> g_AudioCfg_ST,
      g_AudioCfg_IM |-> g_AudioCfg_IM, g_AudioCfg_RQ |-> g_AudioCfg_RQ,
      PwrOut |-> PwrOut, l_PlayType |-> l_PlayType,
      l_KeepPlayback |-> l_KeepPlayback, l_KeepRecord |-> l_KeepRecord,
      l_hdlPlayRec |-> l_hdlPlayRec, l_flgPlaybackRun |-> l_flgPlaybackRun,
      l_flgPlaybackIsRun |-> l_flgPlaybackIsRun,
      l_flgAudioRfidPower |-> l_flgAudioRfidPower,
      l_flgTwiceIDLocked |-> l_flgTwiceIDLocked,
      l_flgAudioPlayRun |-> l_flgAudioPlayRun,
      l_flgAudioPlayStop |-> l_flgAudioPlayStop,
      l_flgAudioRecRun |-> l_flgAudioRecRun,
      l_flgAudioRecStop |-> l_flgAudioRecStop,
      ctlPlaybackType |-> ctlPlaybackType,
      sent |-> sent, log |-> log,
      playActive |-> playActive, recActive |-> recActive,
      playSentSinceID |-> playSentSinceID, lockedPeriod |-> lockedPeriod ]

Commit(r) ==
    \E v \in {r} :
        /\ l_flgInit' = v.l_flgInit
        /\ l_flgAudioOn' = v.l_flgAudioOn
        /\ l_flgAudioIsOn' = v.l_flgAudioIsOn
        /\ l_State' = v.l_State
        /\ l_hdlWdog' = v.l_hdlWdog
        /\ l_flgTxComplete' = v.l_flgTxComplete
        /\ l_ComErrorCnt' = v.l_ComErrorCnt
        /\ l_RxBuffer' = v.l_RxBuffer
        /\ l_RxIdx' = v.l_RxIdx
        /\ l_CheckData' = v.l_CheckData
        /\ l_flgComCompleted' = v.l_flgComCompleted
        /\ RecordFileNumber' = v.RecordFileNumber
        /\ digits' = v.digits
        /\ AudioPlaybackType' = v.AudioPlaybackType
        /\ PlaybackFileNumber' = v.PlaybackFileNumber
        /\ l_flgIsPlayAction' = v.l_flgIsPlayAction
        /\ l_flgIsRecordBlocked' = v.l_flgIsRecordBlocked
        /\ l_flgIsRecAction' = v.l_flgIsRecAction
        /\ l_flgAudioInitIsDone' = v.l_flgAudioInitIsDone
        /\ l_flgSingleAction' = v.l_flgSingleAction
        /\ l_flgLocked' = v.l_flgLocked
        /\ txIEN' = v.txIEN
        /\ l_flgAudioActivate' = v.l_flgAudioActivate
        /\ buffer' \in Uninitialized(v)
        /\ g_AudioCfg_VC' = v.g_AudioCfg_VC
        /\ g_AudioCfg_ST' = v.g_AudioCfg_ST
        /\ g_AudioCfg_IM' = v.g_AudioCfg_IM
        /\ g_AudioCfg_RQ' = v.g_AudioCfg_RQ
        /\ PwrOut' = v.PwrOut
        /\ l_PlayType' = v.l_PlayType
        /\ l_KeepPlayback' = v.l_KeepPlayback
        /\ l_KeepRecord' = v.l_KeepRecord
        /\ l_hdlPlayRec' = v.l_hdlPlayRec
        /\ l_flgPlaybackRun' = v.l_flgPlaybackRun
        /\ l_flgPlaybackIsRun' = v.l_flgPlaybackIsRun
        /\ l_flgAudioRfidPower' = v.l_flgAudioRfidPower
        /\ l_flgTwiceIDLocked' = v.l_flgTwiceIDLocked
        /\ l_flgAudioPlayRun' = v.l_flgAudioPlayRun
        /\ l_flgAudioPlayStop' = v.l_flgAudioPlayStop
        /\ l_flgAudioRecRun' = v.l_flgAudioRecRun
        /\ l_flgAudioRecStop' = v.l_flgAudioRecStop
        /\ ctlPlaybackType' = v.ctlPlaybackType
        /\ sent' = v.sent
        /\ log' = v.log
        /\ playActive' = v.playActive
        /\ recActive' = v.recActive
        /\ playSentSinceID' = v.playSentSinceID
        /\ lockedPeriod' = v.lockedPeriod

(* A handler starts with an empty observation. *)
Enter(s) == [s EXCEPT !.sent = << >>, !.log = << >>]

Log(s, line) == [s EXCEPT !.log = Append(@, line)]

(* ------------------------- timer service -------------------------------- *)
(* one-shot, cancelable timers: the handle holds the remaining duration,   *)
(* T_IDLE when the timer is not running                                     *)
sTimerStart(seconds) == seconds
sTimerCancel == T_IDLE
sTimerIsRunning(hdl) == hdl # T_IDLE

(* ---------------------------- Control.c --------------------------------- *)
PWR_OUT_NONE == -1
PWR_OUT_UA2  == 0
PWR_OUT_UA   == 1
NUM_PWR_OUT  == 2
PWR_OFF == FALSE
PWR_ON  == TRUE

(* CONFIG.TXT: AUDIO_POWER = UA2 *)
g_AudioPower == PWR_OUT_UA2

PowerOutput(s, output, enable) ==
    IF output = PWR_OUT_NONE THEN s
    ELSE IF 0 > output \/ output >= NUM_PWR_OUT THEN s
    ELSE IF s.PwrOut[output] = enable THEN s
    ELSE [s EXCEPT !.PwrOut[output] = enable]

IsPowerOutputOn(s, output) ==
    IF output = PWR_OUT_NONE THEN FALSE ELSE s.PwrOut[output]


(* ---------------------------- drivers/AUDIO.c --------------------------- *)
Rx(s, i) == s.l_RxBuffer[i + 1]

Byte_Saturate(x) == IF x > 255 THEN 255 ELSE x
Byte(x) == x % 256

(* sprintf("%c...") builds a C string: SendCmd copies it with strcpy(), so *)
(* the frame ends before the first zero byte                                *)
RECURSIVE CStr(_)
CStr(f) == IF f = << >> \/ Head(f) = 0 THEN << >>
           ELSE << Head(f) >> \o CStr(Tail(f))

Frame(bytes) == CStr([i \in 1..Len(bytes) |-> Byte(bytes[i])])

StopPlaybackFrame == Frame(<<126, 3, 171, 174, 126>>)

AudioEnable(s) == [s EXCEPT !.l_flgAudioOn = TRUE]

AudioPowerOff(s) ==
    LET s1 == PowerOutput(s, g_AudioPower, PWR_OFF)
        s2 == Log(s1, "Audio is powered off")
    IN  [s2 EXCEPT !.l_State = AUDIO_STATE_OFF,
                   !.txIEN = FALSE,
                   !.l_flgLocked = FALSE,
                   !.l_flgSingleAction = TRUE,
                   !.l_flgIsPlayAction = FALSE,
                   !.l_flgAudioInitIsDone = FALSE,
                   !.playActive = FALSE,
                   !.recActive = FALSE,
                   !.lockedPeriod = "none"]

AudioDisable(s) ==
    IF s.l_flgAudioOn
    THEN LET s1 == [s EXCEPT !.l_flgAudioOn = FALSE]
         IN  IF s1.l_flgAudioIsOn
             THEN [AudioPowerOff(s1) EXCEPT !.l_flgAudioIsOn = FALSE]
             ELSE s1
    ELSE s

AudioPowerOn(s) ==
    IF s.l_flgAudioActivate
    THEN LET s1 == Log(s, "Audio is powered ON")
             s2 == [s1 EXCEPT !.l_flgTxComplete = FALSE, !.l_RxIdx = 0,
                              !.txIEN = FALSE]
             s3 == PowerOutput(s2, g_AudioPower, PWR_ON)
         IN  [s3 EXCEPT !.l_State = AUDIO_STATE_POWER_ON,
                        !.l_flgAudioInitIsDone = FALSE,
                        !.l_flgLocked = FALSE]
    ELSE s

(* AudioInit(): the configuration has been read into g_AudioCfg_xx *)
AudioInit(s) ==
    LET s1 == IF s.l_flgAudioActivate THEN AudioPowerOff(s) ELSE s
        s2 == [s1 EXCEPT !.l_flgAudioIsOn = FALSE,
                         !.l_flgAudioActivate = FALSE]
        s3 == [s2 EXCEPT !.l_flgAudioActivate = TRUE, !.l_flgInit = TRUE]
        s4 == IF s3.g_AudioCfg_VC < 1 \/ s3.g_AudioCfg_VC > 32
              THEN Log(s3, "LogError: Volume control must be between 1 and 31")
              ELSE s3
        s5 == IF s4.g_AudioCfg_ST > 1
              THEN Log(s4, "LogError: Storage device must be between 0 and 1")
              ELSE s4
        s6 == IF s5.g_AudioCfg_IM > 2
              THEN Log(s5, "LogError: Audio-recording input mode IM must be between 0 and 2")
              ELSE s5
        s7 == IF s6.g_AudioCfg_RQ > 3
              THEN Log(s6, "LogError: Recording quality (bit rate) must be between 0 and 3")
              ELSE s6
    IN  IF g_AudioPower = PWR_OUT_NONE THEN s2 ELSE s7

SendCmd(s, state, frame) ==
    LET s1 == IF ~ s.l_flgTxComplete
              THEN Log(s, "LogError: SendCmd: Previous command still pending")
              ELSE s
    IN  IF Len(frame) > TX_BUFFER_SIZE - 2
        THEN Log(s1, "LogError: SendCmd: Command too long")
        ELSE [s1 EXCEPT !.l_flgTxComplete = FALSE,
                        !.txIEN = TRUE,
                        !.l_hdlWdog = sTimerStart(WDOG_TIMEOUT),
                        !.sent = Append(@, [state |-> state, frame |-> frame])]

CmdFrame(s, state) ==
    CASE state = AUDIO_GET_WORK_STATUS  -> Frame(<<126, 3, 194, 197, 126>>)
      [] state = AUDIO_GET_SPACE_LEFT   -> Frame(<<126, 3, 206, 209, 126>>)
      [] state = AUDIO_GET_FILE_NUMBERS -> Frame(<<126, 3, 197, 200, 126>>)
      [] state = AUDIO_STATE_SEND_VC ->
            IF s.g_AudioCfg_VC # 0
            THEN Frame(<<126, 4, 174, s.g_AudioCfg_VC, 4 + 174 + s.g_AudioCfg_VC, 126>>)
            ELSE StopPlaybackFrame
      [] state = AUDIO_STATE_SEND_ST ->
            IF s.g_AudioCfg_ST # 0
            THEN Frame(<<126, 4, 210, 1, 215, 126>>)
            ELSE StopPlaybackFrame
      [] state = AUDIO_STATE_SEND_IM ->
            IF s.g_AudioCfg_IM # 0
            THEN IF s.g_AudioCfg_IM = 1
                 THEN Frame(<<126, 4, 211, 1, 216, 126>>)
                 ELSE IF s.g_AudioCfg_IM = 2
                      THEN Frame(<<126, 4, 211, 2, 217, 126>>)
                      ELSE s.buffer
            ELSE StopPlaybackFrame
      [] state = AUDIO_STATE_SEND_RQ ->
            IF s.g_AudioCfg_RQ # 0
            THEN IF s.g_AudioCfg_RQ = 1
                 THEN Frame(<<126, 4, 212, 1, 217, 126>>)
                 ELSE IF s.g_AudioCfg_RQ = 2
                      THEN Frame(<<126, 4, 212, 2, 218, 126>>)
                      ELSE Frame(<<126, 4, 212, 3, 219, 126>>)
            ELSE StopPlaybackFrame
      [] state = AUDIO_SEND_PLAYBACK ->
            IF s.PlaybackFileNumber <= 5
            THEN Frame(<<126, 7, 163, 80, 48, 48, s.PlaybackFileNumber + 48,
                         7 + 163 + 80 + 48 + 48 + s.PlaybackFileNumber + 48, 126>>)
            ELSE StopPlaybackFrame
      [] state = AUDIO_SEND_RECORD ->
            Frame(<<126, 7, 214, 82, s.digits[1], s.digits[2], s.digits[3],
                    7 + 214 + 82 + s.digits[1] + s.digits[2] + s.digits[3], 126>>)
      [] state = AUDIO_SEND_PLAYBACK_STOP -> StopPlaybackFrame
      [] state = AUDIO_SEND_RECORD_STOP -> Frame(<<126, 3, 217, 220, 126>>)
      [] OTHER -> << >>

AudioSendCmdSeq(s, state) ==
    IF state \in CmdStates
    THEN LET frame == CmdFrame(s, state)
             s1 == CASE state = AUDIO_SEND_PLAYBACK ->
                        IF s.PlaybackFileNumber <= 5
                        THEN [s EXCEPT !.l_flgLocked = TRUE,
                                       !.PlaybackFileNumber = @ + 48,
                                       !.playActive = TRUE,
                                       !.playSentSinceID = TRUE]
                        ELSE [s EXCEPT !.l_flgLocked = TRUE]
                     [] state = AUDIO_SEND_RECORD ->
                        [s EXCEPT !.l_flgLocked = TRUE, !.recActive = TRUE]
                     [] OTHER -> s
         IN  SendCmd([s1 EXCEPT !.l_State = state], state, frame)
    ELSE LET s1 == Log(s, "LogError: AudioSendCmdSeq(): INVALID STATE")
         IN  [s1 EXCEPT !.l_State = AUDIO_STATE_OFF]

(* rnd is the value returned by rand() *)
AudioPlayback_AnyOfFive(s, rnd) ==
    LET t == s.AudioPlaybackType
        n == IF t <= 5 THEN t
             ELSE IF t \in 6 .. 9 THEN (rnd % 5) + 1
             ELSE s.PlaybackFileNumber
    IN  AudioSendCmdSeq([s EXCEPT !.PlaybackFileNumber = n], AUDIO_SEND_PLAYBACK)
AudioPlayback(s, rnd) ==
    LET t == s.AudioPlaybackType
        n == IF t <= 5 THEN t
             ELSE IF t = 6 THEN (rnd % 2) + 1
             ELSE IF t = 7 THEN (rnd % 3) + 1
             ELSE IF t = 8 THEN (rnd % 4) + 1
             ELSE IF t = 9 THEN (rnd % 5) + 1
             ELSE s.PlaybackFileNumber
    IN  AudioSendCmdSeq([s EXCEPT !.PlaybackFileNumber = n], AUDIO_SEND_PLAYBACK)

AudioRecord_TensOfAll(s) ==
    LET n  == s.RecordFileNumber + 1
        d1 == n % 10
        d2 == (n - d1) \div 10
        d3 == ((n - d2) % 1000) \div 100
        s1 == [s EXCEPT !.RecordFileNumber = n]
        s2 == IF d3 >= 9 /\ d2 >= 8 /\ d1 >= 0
              THEN Log(s1, "LogError: Audio: Supports maximum 999 record files")
              ELSE s1
    IN  AudioSendCmdSeq([s2 EXCEPT !.digits = <<d3 + 48, d2 + 48, d1 + 48>>],
                        AUDIO_SEND_RECORD)
AudioRecord(s) ==
    LET n  == s.RecordFileNumber + 1
        d1 == n % 10
        d2 == ((n - d1) % 100) \div 10
        d3 == ((n - d2) % 1000) \div 100
        s1 == [s EXCEPT !.RecordFileNumber = n]
        s2 == IF d3 >= 9 /\ d2 >= 8 /\ d1 >= 0
              THEN Log(s1, "LogError: Audio: Supports maximum 999 record files")
              ELSE s1
    IN  AudioSendCmdSeq([s2 EXCEPT !.digits = <<d3 + 48, d2 + 48, d1 + 48>>],
                        AUDIO_SEND_RECORD)

SetError(s) == Log(s, "SetError(ERR_SRC_AUDIO)")

(* nibble-wise conversion of the two data bytes of a reply *)
HexToInt(s) ==
    ((Rx(s, 1) \div 16) % 16) * 4096 + (Rx(s, 1) % 16) * 256
  + ((Rx(s, 2) \div 16) % 16) * 16   + (Rx(s, 2) % 16)

(* work status 1 playing, 3 paused, 4 recording, 5 fast forward/backward:   *)
(* the next query is sent                                                   *)
WorkStatusProceeds_OnlyPlaying(status) == status = 1
WorkStatusProceeds(status) == status \in {1, 3, 4, 5}

CheckAudioData(s0) ==
    LET s  == [s0 EXCEPT !.l_hdlWdog = sTimerCancel]
        st == s.l_State
        failed == Rx(s, 0) = 1
    IN
    CASE st = AUDIO_STATE_POWER_ON ->
            IF Rx(s, 0) = OP_CONNECT
            THEN IF s.l_CheckData >= 2
                 THEN [s EXCEPT !.l_hdlWdog = sTimerStart(POWER_UP_DELAY),
                                !.l_CheckData = 1,
                                !.l_flgComCompleted = TRUE]
                 ELSE [s EXCEPT !.l_CheckData = @ + 1]
            ELSE [SetError(s) EXCEPT !.l_flgComCompleted = TRUE]
      [] st = AUDIO_GET_WORK_STATUS ->
            IF Rx(s, 0) = OP_WORK
            THEN IF s.l_CheckData >= 2
                 THEN LET s1 == IF WorkStatusProceeds(Rx(s, 1))
                                THEN AudioSendCmdSeq(s, st + 1)
                                ELSE IF Rx(s, 1) = 2
                                     THEN [s EXCEPT !.l_State = AUDIO_STATE_OPERATIONAL]
                                     ELSE s
                      IN  [s1 EXCEPT !.l_CheckData = 1,
                                     !.l_flgComCompleted = TRUE]
                 ELSE [s EXCEPT !.l_CheckData = @ + 1]
            ELSE [SetError(s) EXCEPT !.l_flgComCompleted = TRUE]
      [] st = AUDIO_GET_SPACE_LEFT ->
            IF Rx(s, 0) = OP_SPACE
            THEN IF s.l_CheckData >= 3
                 THEN IF Rx(s, 2) # 0
                      THEN [AudioSendCmdSeq([s EXCEPT !.l_flgComCompleted = TRUE],
                                            st + 1)
                               EXCEPT !.l_CheckData = 1]
                      ELSE [SetError(s) EXCEPT !.l_CheckData = 1,
                                               !.l_flgComCompleted = TRUE]
                 ELSE [s EXCEPT !.l_CheckData = @ + 1]
            ELSE [SetError(s) EXCEPT !.l_CheckData = 0]
      [] st = AUDIO_GET_FILE_NUMBERS ->
            IF Rx(s, 0) = OP_FILES
            THEN IF s.l_CheckData >= 3
                 THEN IF Rx(s, 2) # 0
                      THEN [AudioSendCmdSeq(
                               [s EXCEPT !.RecordFileNumber = HexToInt(s) - 5,
                                         !.l_flgComCompleted = TRUE],
                               st + 1)
                               EXCEPT !.l_CheckData = 1]
                      ELSE [SetError(s) EXCEPT !.l_CheckData = 1,
                                               !.l_flgComCompleted = TRUE]
                 ELSE [s EXCEPT !.l_CheckData = @ + 1]
            ELSE [SetError(s) EXCEPT !.l_CheckData = 0]
      [] st \in {AUDIO_STATE_SEND_VC, AUDIO_STATE_SEND_ST, AUDIO_STATE_SEND_IM} ->
            LET s1 == IF failed THEN SetError(s) ELSE s
            IN  AudioSendCmdSeq([s1 EXCEPT !.l_CheckData = 1,
                                           !.l_flgComCompleted = TRUE],
                                st + 1)
      [] st = AUDIO_STATE_SEND_RQ ->
            LET s1 == IF failed THEN SetError(s)
                      ELSE Log(s, "Audio module is operational now")
            IN  [s1 EXCEPT !.l_CheckData = 1,
                           !.l_flgComCompleted = TRUE,
                           !.l_State = AUDIO_STATE_OPERATIONAL,
                           !.l_flgLocked = FALSE,
                           !.l_flgAudioInitIsDone = TRUE,
                           !.lockedPeriod = "none"]
      [] st = AUDIO_SEND_PLAYBACK ->
            [s EXCEPT !.PlaybackFileNumber = 0,
                      !.l_flgComCompleted = TRUE,
                      !.l_State = AUDIO_STATE_OPERATIONAL]
      [] st = AUDIO_SEND_RECORD ->
            [s EXCEPT !.digits = <<0, 0, 0>>,
                      !.l_flgComCompleted = TRUE,
                      !.l_State = AUDIO_STATE_OPERATIONAL]
      [] st = AUDIO_SEND_PLAYBACK_STOP ->
            LET s1 == IF failed
                      THEN Log(s, "LogError: Audio: Playback off execution failed")
                      ELSE [Log(s, "Audio: Playback off")
                               EXCEPT !.l_flgLocked = FALSE,
                                      !.playActive = FALSE]
            IN  [s1 EXCEPT !.l_flgIsRecordBlocked = FALSE,
                           !.l_flgComCompleted = TRUE,
                           !.l_State = AUDIO_STATE_OPERATIONAL]
      [] st = AUDIO_SEND_RECORD_STOP ->
            LET s1 == IF failed
                      THEN Log(s, "LogError: Audio: Record off execution failed")
                      ELSE [Log(s, "Audio: Record off")
                               EXCEPT !.l_flgLocked = FALSE,
                                      !.recActive = FALSE]
            IN  [s1 EXCEPT !.l_flgComCompleted = TRUE,
                           !.l_State = AUDIO_STATE_OPERATIONAL]
      [] st = AUDIO_STATE_OPERATIONAL ->
            IF Rx(s, 0) = OP_CONNECT
            THEN IF s.l_CheckData >= 2
                 THEN [s EXCEPT !.l_CheckData = 1, !.l_flgComCompleted = TRUE]
                 ELSE [s EXCEPT !.l_CheckData = @ + 1]
            ELSE [s EXCEPT !.l_flgComCompleted = TRUE]
      [] OTHER ->
            [SetError(s) EXCEPT !.l_flgComCompleted = TRUE]

(* l_RxBuffer[idx] = data; only the first three bytes are ever read back *)
RxStore(buf, idx, data) ==
    IF idx + 1 \in DOMAIN buf THEN [buf EXCEPT ![idx + 1] = data] ELSE buf

(* "l_RxIdx < sizeof(l_RxBuffer) - 2": the buffer takes another byte *)
RxBufferHasRoom_Always(s) == TRUE
RxBufferHasRoom(s) == s.l_RxIdx < RX_BUFFER_SIZE - 2

USART0_RX_IRQHandler(s, rxData) ==
    IF rxData = RX_IGNORE THEN s
    ELSE IF RxBufferHasRoom(s)
    THEN LET s1 == IF s.l_flgComCompleted
                   THEN [s EXCEPT !.l_RxIdx = 0,
                                  !.l_RxBuffer = <<@[1], EOS, EOS>>,
                                  !.l_flgComCompleted = FALSE]
                   ELSE s
             s2 == [s1 EXCEPT !.l_RxBuffer = RxStore(@, s1.l_RxIdx, rxData),
                              !.l_RxIdx = @ + 1]
         IN  CheckAudioData(s2)
    ELSE IF s.l_RxIdx < RX_BUFFER_SIZE - 1
    THEN Log([s EXCEPT !.l_RxBuffer = RxStore(@, s.l_RxIdx, EOS),
                       !.l_RxIdx = @ + 1],
             "LogError: Audio: l_RxBuffer full")
    ELSE s

(* the transmit interrupt has sent the last byte of l_TxBuffer *)
USART0_TX_IRQHandler(s) ==
    [s EXCEPT !.txIEN = FALSE, !.l_flgTxComplete = TRUE]

(* "Check error count": the error budget is used up *)
ComErrorCntExceeded_Late(s) == s.l_ComErrorCnt > MAX_COM_ERROR_CNT + 1
ComErrorCntExceeded(s) == s.l_ComErrorCnt > MAX_COM_ERROR_CNT

(* "initiate recovery of the audio module" *)
RecoverAudio_NoPowerOff(s) ==
    [Log(s, "Try to recover Audio")
        EXCEPT !.l_State = AUDIO_STATE_RECOVER,
               !.l_hdlWdog = sTimerStart(60)]
RecoverAudio_NoTimer(s) ==
    [Log(AudioDisable(s), "Try to recover Audio")
        EXCEPT !.l_State = AUDIO_STATE_RECOVER]
RecoverAudio(s) ==
    [Log(AudioDisable(s), "Try to recover Audio")
        EXCEPT !.l_State = AUDIO_STATE_RECOVER,
               !.l_hdlWdog = sTimerStart(60)]

(* "Check for power-up problems": the first query got no answer *)
IsPowerUpProblem_Second(s) ==
    s.l_ComErrorCnt = 1 /\ s.l_State = AUDIO_GET_WORK_STATUS
IsPowerUpProblem(s) ==
    s.l_ComErrorCnt = 0 /\ s.l_State = AUDIO_GET_WORK_STATUS

(* the first command after the power-up delay *)
StartState_AlwaysWorkStatus(s) == AUDIO_GET_WORK_STATUS
StartState(s) == IF s.l_flgInit THEN AUDIO_GET_WORK_STATUS
                 ELSE AUDIO_GET_FILE_NUMBERS

AudioComTimeout(s) ==
    IF ComErrorCntExceeded(s)
    THEN AudioDisable([s EXCEPT !.l_State = AUDIO_STATE_OFF])
    ELSE IF s.l_State = AUDIO_STATE_RECOVER
    THEN AudioEnable([s EXCEPT !.l_State = AUDIO_STATE_POWER_ON])
    ELSE IF IsPowerUpProblem(s)
    THEN AudioDisable(
             [Log(s, "LogError: Audio: Timeout during initialization")
                 EXCEPT !.l_State = AUDIO_STATE_OFF])
    ELSE IF s.l_State = AUDIO_STATE_POWER_ON
    THEN LET startState == StartState(s)
         IN  AudioSendCmdSeq([Log(s, "Audio should be ready")
                                 EXCEPT !.l_flgInit = FALSE,
                                        !.l_flgTxComplete = TRUE],
                             startState)
    ELSE LET s1 == Log([s EXCEPT !.l_ComErrorCnt = Byte(@ + 1)],
                       "LogError: Audio: Communication Timeout")
         IN  IF s1.l_ComErrorCnt < MAX_COM_ERROR_CNT
             THEN RecoverAudio(s1)
             ELSE Log(s1, "LogError: Audio: MAX_COM_ERROR_CNT exceeded")

(* the engine reports "ready": the initialization sequence is complete *)
AudioInitIsDone_Always(s) == TRUE
AudioInitIsDone(s) == s.l_flgAudioInitIsDone

LogLockedOnce(s) ==
    IF ~ s.l_flgSingleAction
    THEN [Log(s, "Audio: Playback and Record are locked")
             EXCEPT !.l_flgSingleAction = TRUE, !.l_flgLocked = FALSE,
                    !.lockedPeriod = IF @ = "none" THEN "logged"
                                     ELSE IF @ = "logged" THEN "twice" ELSE @]
    ELSE [s EXCEPT !.lockedPeriod = IF @ = "none" THEN "silent" ELSE @]

AudioCheck(s0, rnd) ==
    LET isControlPlayRun  == s0.l_flgAudioPlayRun
        isControlPlayStop == s0.l_flgAudioPlayStop
        isControlRecRun   == s0.l_flgAudioRecRun
        isControlRecStop  == s0.l_flgAudioRecStop
        s1 == [s0 EXCEPT !.AudioPlaybackType = s0.ctlPlaybackType]
        (* Audio Power *)
        s2 == IF s1.l_flgAudioOn
              THEN IF ~ s1.l_flgAudioIsOn
                   THEN [AudioPowerOn(s1) EXCEPT !.l_flgAudioIsOn = TRUE]
                   ELSE s1
              ELSE IF s1.l_flgAudioIsOn
                   THEN [AudioPowerOff(s1) EXCEPT !.l_flgAudioIsOn = FALSE,
                                                  !.l_flgSingleAction = FALSE]
                   ELSE s1
        (* Start Audio Playback *)
        s3 == IF isControlPlayRun /\ ~ isControlPlayStop /\ ~ s2.l_flgIsPlayAction
              THEN IF AudioInitIsDone(s2)
                   THEN AudioPlayback([s2 EXCEPT !.l_flgIsPlayAction = TRUE,
                                                 !.l_flgSingleAction = FALSE,
                                                 !.l_flgIsRecordBlocked = TRUE],
                                      rnd)
                   ELSE LogLockedOnce(s2)
              ELSE s2
        (* Stop Audio Playback *)
        s4 == IF isControlPlayStop /\ ~ isControlPlayRun /\ s3.l_flgIsPlayAction
              THEN AudioSendCmdSeq([s3 EXCEPT !.l_flgIsPlayAction = FALSE],
                                   AUDIO_SEND_PLAYBACK_STOP)
              ELSE s3
        (* Start Audio Record *)
        s5 == IF /\ isControlRecRun /\ ~ isControlRecStop
                 /\ ~ s4.l_flgIsRecAction /\ ~ s4.l_flgIsRecordBlocked
              THEN IF AudioInitIsDone(s4)
                   THEN AudioRecord([s4 EXCEPT !.l_flgIsRecAction = TRUE,
                                               !.l_flgSingleAction = FALSE])
                   ELSE LogLockedOnce(s4)
              ELSE s4
        (* Stop Audio Record *)
    IN  IF isControlRecStop /\ ~ isControlRecRun /\ s5.l_flgIsRecAction
        THEN AudioSendCmdSeq([s5 EXCEPT !.l_flgIsRecAction = FALSE],
                             AUDIO_SEND_RECORD_STOP)
        ELSE s5

IsAudioLocked(s) == s.l_flgLocked

(* ------------------------------ Control.c ------------------------------- *)
(* an ID_PARM pointer: the null pointer, or the address of an entry *)
NULL == [null |-> TRUE]
IdParm(e) == [null |-> FALSE, KeepPlayback |-> e.KeepPlayback,
              KeepRecord |-> e.KeepRecord, PlayType |-> e.PlayType]

(* CfgLookupID(): the ID's entry in CONFIG.TXT, NULL when there is none *)
CfgLookupID_WithAny(transponderID) ==
    IF transponderID \in DOMAIN IdList THEN IdParm(IdList[transponderID])
    ELSE IF transponderID = "ANY" THEN IdParm(IdList["BIRD01"])
    ELSE NULL
CfgLookupID(transponderID) ==
    IF transponderID \in DOMAIN IdList THEN IdParm(IdList[transponderID])
    ELSE NULL

PlaybackRun_DfltType(s) ==
    LET s1 == [s EXCEPT !.l_flgPlaybackRun = TRUE]
    IN  IF ~ s1.l_flgPlaybackIsRun
        THEN [s1 EXCEPT !.l_flgPlaybackIsRun = TRUE,
                        !.ctlPlaybackType = DFLT_PLAY_TYPE,
                        !.l_flgAudioPlayRun = TRUE,
                        !.l_flgAudioPlayStop = FALSE]
        ELSE s1
PlaybackRun(s) ==
    LET s1 == [s EXCEPT !.l_flgPlaybackRun = TRUE]
    IN  IF ~ s1.l_flgPlaybackIsRun
        THEN [s1 EXCEPT !.l_flgPlaybackIsRun = TRUE,
                        !.ctlPlaybackType = s1.l_PlayType,
                        !.l_flgAudioPlayRun = TRUE,
                        !.l_flgAudioPlayStop = FALSE]
        ELSE s1

RecordRun(s) ==
    LET s1 == [s EXCEPT !.l_flgPlaybackRun = FALSE]
    IN  IF ~ s1.l_flgPlaybackIsRun
        THEN [s1 EXCEPT !.l_flgPlaybackIsRun = FALSE,
                        !.l_flgAudioRecRun = TRUE,
                        !.l_flgAudioRecStop = FALSE]
        ELSE s1

(* second half of ControlUpdateID(): "playback or record (may already be   *)
(* done)"                                                                   *)
StartPlayRec_IgnoreLock(s, isAudioLocked) ==
    IF s.l_KeepPlayback > 0
    THEN [PlaybackRun(s) EXCEPT !.l_hdlPlayRec = sTimerStart(s.l_KeepPlayback)]
    ELSE IF s.l_KeepRecord > 0
         THEN [RecordRun(s) EXCEPT !.l_hdlPlayRec = sTimerStart(s.l_KeepRecord)]
         ELSE s
StartPlayRec(s, isAudioLocked) ==
    IF s.l_KeepPlayback > 0
    THEN IF ~ isAudioLocked
         THEN [PlaybackRun(s) EXCEPT !.l_hdlPlayRec = sTimerStart(s.l_KeepPlayback)]
         ELSE s
    ELSE IF s.l_KeepRecord > 0 /\ ~ isAudioLocked
         THEN [RecordRun(s) EXCEPT !.l_hdlPlayRec = sTimerStart(s.l_KeepRecord)]
         ELSE s

(* uninitNull: the lookup is skipped when the audio module is locked and    *)
(* the ID lock is set; the local pID is then read uninitialized and may or  *)
(* may not compare equal to NULL                                            *)
ControlUpdateID(s0, transponderID, uninitNull) ==
    LET s == [s0 EXCEPT !.playSentSinceID = FALSE]
        isAudioLocked == IsAudioLocked(s)
        doLookup == ~ isAudioLocked \/ ~ s.l_flgTwiceIDLocked
        pID0 == IF doLookup THEN CfgLookupID(transponderID)
                ELSE [null |-> uninitNull]
        pID1 == IF pID0.null THEN CfgLookupID("ANY") ELSE pID0
        pID  == IF pID1.null THEN CfgLookupID("UNKNOWN") ELSE pID1
    IN  IF pID.null
        THEN Log(s, "Transponder: not found - aborting")
        ELSE IF doLookup
        THEN LET s1 == [s EXCEPT
                          !.l_KeepPlayback = IF pID.KeepPlayback = DUR_INVALID
                                             THEN DFLT_KEEP_PLAYING_DURATION
                                             ELSE pID.KeepPlayback,
                          !.l_KeepRecord = IF pID.KeepRecord = DUR_INVALID
                                           THEN DFLT_KEEP_RECORD_DURATION
                                           ELSE pID.KeepRecord,
                          !.l_PlayType = IF pID.PlayType = DUR_INVALID
                                         THEN DFLT_PLAY_TYPE
                                         ELSE pID.PlayType,
                          !.l_flgTwiceIDLocked = TRUE]
             IN  StartPlayRec(Log(s1, "Transponder: ID:KeepPlayback:KeepRecord:PlayType"),
                              isAudioLocked)
        ELSE StartPlayRec(Log(s, "Transponder: ID - Audio: Is locked"),
                          isAudioLocked)

PlayRecAction(s) ==
    IF s.l_flgPlaybackRun
    THEN LET s1 == [s EXCEPT !.l_flgPlaybackIsRun = FALSE,
                             !.l_hdlPlayRec = sTimerCancel,
                             !.l_flgAudioPlayStop = TRUE,
                             !.l_flgAudioPlayRun = FALSE]
             s2 == IF s1.l_KeepRecord > 0
                   THEN [RecordRun(s1) EXCEPT
                            !.l_hdlPlayRec = sTimerStart(s1.l_KeepRecord)]
                   ELSE s1
         IN  [s2 EXCEPT !.l_flgPlaybackRun = FALSE,
                        !.l_flgTwiceIDLocked = FALSE]
    ELSE [s EXCEPT !.l_flgPlaybackRun = TRUE,
                   !.l_hdlPlayRec = sTimerCancel,
                   !.l_flgAudioRecStop = TRUE,
                   !.l_flgAudioRecRun = FALSE,
                   !.l_flgTwiceIDLocked = FALSE]

(* alarm numbers, relative to FIRST_POWER_ALARM *)
ALARM_ON_TIME_1 == 0
ALARM_OFF_TIME  == 1

PowerControl(s, alarmNum) ==
    LET pwrState == IF alarmNum >= ALARM_OFF_TIME THEN PWR_OFF ELSE PWR_ON
    IN  IF pwrState = PWR_ON
        THEN AudioEnable([s EXCEPT !.l_flgAudioRfidPower = TRUE])
        ELSE AudioDisable([s EXCEPT !.l_flgAudioRfidPower = FALSE,
                                    !.l_flgTwiceIDLocked = FALSE])

(* power-fail: drivers/AUDIO.c and Control.c *)
AudioPowerFailHandler_KeepsRequest(s) ==
    IF s.l_flgAudioIsOn
    THEN [AudioPowerOff(s) EXCEPT !.l_flgAudioIsOn = FALSE]
    ELSE s
AudioPowerFailHandler(s) ==
    LET s1 == [s EXCEPT !.l_flgAudioOn = FALSE]
    IN  IF s1.l_flgAudioIsOn
        THEN [AudioPowerOff(s1) EXCEPT !.l_flgAudioIsOn = FALSE]
        ELSE s1

RECURSIVE PowerOutputsOff(_, _)
PowerOutputsOff(s, i) ==
    IF i < NUM_PWR_OUT THEN PowerOutputsOff(PowerOutput(s, i, PWR_OFF), i + 1)
    ELSE s

ControlPowerFailHandler(s) ==
    LET s1 == [s EXCEPT !.l_hdlPlayRec = sTimerCancel]
    IN  PowerOutputsOff(Log(s1, "Switching all power outputs OFF"), 0)

(* l_PowerFailFct[]: the handlers in the order PowerFailHandler() calls them; *)
(* RFID_PowerFailHandler() touches the RFID reader only                       *)
l_PowerFailFct(s) == ControlPowerFailHandler(AudioPowerFailHandler(s))

(* ------------------------------ the system ------------------------------ *)
Init ==
    /\ l_flgInit = TRUE
    /\ l_flgAudioOn = FALSE
    /\ l_flgAudioIsOn = FALSE
    /\ l_State = AUDIO_STATE_OFF
    /\ l_hdlWdog = T_IDLE
    /\ l_flgTxComplete = FALSE
    /\ l_ComErrorCnt = 0
    /\ l_RxBuffer = <<EOS, EOS, EOS>>
    /\ l_RxIdx = 0
    /\ l_CheckData = 1
    /\ l_flgComCompleted = FALSE
    /\ RecordFileNumber = 0
    /\ digits = <<0, 0, 0>>
    /\ AudioPlaybackType = 0
    /\ PlaybackFileNumber = 0
    /\ l_flgIsPlayAction = FALSE
    /\ l_flgIsRecordBlocked = FALSE
    /\ l_flgIsRecAction = FALSE
    /\ l_flgAudioInitIsDone = FALSE
    /\ l_flgSingleAction = FALSE
    /\ l_flgLocked = FALSE
    /\ txIEN = FALSE
    /\ l_flgAudioActivate = TRUE
    /\ buffer = << >>
    /\ g_AudioCfg_VC = 20
    /\ g_AudioCfg_ST = 0
    /\ g_AudioCfg_IM = 1
    /\ g_AudioCfg_RQ = 2
    /\ PwrOut = [o \in 0 .. NUM_PWR_OUT - 1 |-> FALSE]
    /\ l_PlayType = DFLT_PLAY_TYPE
    /\ l_KeepPlayback = DFLT_KEEP_PLAYING_DURATION
    /\ l_KeepRecord = DFLT_KEEP_RECORD_DURATION
    /\ l_hdlPlayRec = T_IDLE
    /\ l_flgPlaybackRun = TRUE
    /\ l_flgPlaybackIsRun = FALSE
    /\ l_flgAudioRfidPower = FALSE
    /\ l_flgTwiceIDLocked = FALSE
    /\ l_flgAudioPlayRun = FALSE
    /\ l_flgAudioPlayStop = FALSE
    /\ l_flgAudioRecRun = FALSE
    /\ l_flgAudioRecStop = FALSE
    /\ ctlPlaybackType = 0
    /\ sent = << >>
    /\ log = << >>
    /\ playActive = FALSE
    /\ recActive = FALSE
    /\ playSentSinceID = FALSE
    /\ lockedPeriod = "none"

(* the alarm clock runs PowerControl() at an ON or OFF time *)
PowerControlAct(alarmNum) ==
    /\ alarmNum \in {ALARM_ON_TIME_1, ALARM_OFF_TIME}
    /\ Commit(PowerControl(Enter(Cur), alarmNum))

(* the RFID reader reports a transponder; it is powered only inside the    *)
(* power window                                                             *)
ControlUpdateIDAct(id, uninitNull) ==
    /\ l_flgAudioRfidPower
    /\ Commit(ControlUpdateID(Enter(Cur), id, uninitNull))

(* the keep-alive timer expires *)
PlayRecActionAct ==
    /\ sTimerIsRunning(l_hdlPlayRec)
    /\ Commit(PlayRecAction(Enter([Cur EXCEPT !.l_hdlPlayRec = T_IDLE])))

(* one iteration of the service execution loop *)
AudioCheckAct(rnd) ==
    /\ ~ (/\ l_flgAudioRecRun /\ ~ l_flgAudioRecStop /\ ~ l_flgIsRecAction
          /\ RecordFileNumber >= MaxRecordFileNumber)
    /\ Commit(AudioCheck(Enter(Cur), rnd))

(* the communication watchdog expires *)
AudioComTimeoutAct ==
    /\ sTimerIsRunning(l_hdlWdog)
    /\ Commit(AudioComTimeout(Enter([Cur EXCEPT !.l_hdlWdog = T_IDLE])))

(* an expiry that AudioComTimeout() counts as a communication error *)
IsErrorExpiry ==
    /\ l_ComErrorCnt <= MAX_COM_ERROR_CNT
    /\ l_State \notin {AUDIO_STATE_RECOVER, AUDIO_STATE_POWER_ON}
    /\ ~ (l_ComErrorCnt = 0 /\ l_State = AUDIO_GET_WORK_STATUS)

(* the bytes the module may send next: any byte, but the data bytes of a   *)
(* space-left / file-count reply come from DataHi and DataLo                *)
RxInput ==
    IF /\ ~ l_flgComCompleted
       /\ \/ l_State = AUDIO_GET_SPACE_LEFT /\ l_RxBuffer[1] = OP_SPACE
          \/ l_State = AUDIO_GET_FILE_NUMBERS /\ l_RxBuffer[1] = OP_FILES
       /\ l_RxIdx \in {1, 2}
    THEN IF l_RxIdx = 1 THEN DataHi ELSE DataLo
    ELSE RxBytes

(* the bytes of a module that answers as the data sheet says: the prompt   *)
(* after power-up, and for a pending command the reply opcode followed by   *)
(* its data, or the status byte (0 done, 1 failed); the watchdog is armed    *)
(* until the first byte of a reply arrives                                  *)
ReplyInput ==
    IF l_State = AUDIO_STATE_POWER_ON
    THEN IF sTimerIsRunning(l_hdlWdog) THEN {}
         ELSE IF l_CheckData = 1 THEN {OP_CONNECT} ELSE {0}
    ELSE IF ~ sTimerIsRunning(l_hdlWdog) /\ l_CheckData = 1 THEN {}
    ELSE CASE l_State = AUDIO_GET_WORK_STATUS ->
                 IF l_CheckData = 1 THEN {OP_WORK} ELSE {1, 2}
           [] l_State = AUDIO_GET_SPACE_LEFT ->
                 IF l_CheckData = 1 THEN {OP_SPACE}
                 ELSE IF l_CheckData = 2 THEN DataHi ELSE DataLo
           [] l_State = AUDIO_GET_FILE_NUMBERS ->
                 IF l_CheckData = 1 THEN {OP_FILES}
                 ELSE IF l_CheckData = 2 THEN DataHi ELSE DataLo
           [] l_State \in AUDIO_STATE_SEND_VC .. AUDIO_SEND_RECORD_STOP -> {0, 1}
           [] OTHER -> {}

(* every byte value the model puts on the wire *)
WireBytes == RxBytes \cup DataHi \cup DataLo

(* the powered module sends a byte *)
RxAct(rxData) ==
    /\ PwrOut[g_AudioPower]
    /\ l_flgComCompleted \/ l_RxIdx < MaxRxIdx
    /\ rxData \in RxInput
    /\ Commit(USART0_RX_IRQHandler(Enter(Cur), rxData))

(* the powered module sends the next byte of a prompt or of a reply *)
ReplyAct(rxData) ==
    /\ PwrOut[g_AudioPower]
    /\ l_flgComCompleted \/ l_RxIdx < MaxRxIdx
    /\ rxData \in ReplyInput
    /\ Commit(USART0_RX_IRQHandler(Enter(Cur), rxData))

(* the frame handed to SendCmd has left the UART *)
TxAct ==
    /\ PwrOut[g_AudioPower]
    /\ txIEN
    /\ Commit(USART0_TX_IRQHandler(Enter(Cur)))

(* the watchdog expires where AudioComTimeout() counts no error: the        *)
(* power-up delay is over, or the first query got no answer                 *)
AudioReadyAct ==
    /\ ~ IsErrorExpiry
    /\ AudioComTimeoutAct

(* All handlers, with a module that answers as the data sheet says and, but *)
(* for the first query, in time.                                            *)
Next ==
    \/ \E alarmNum \in {ALARM_ON_TIME_1, ALARM_OFF_TIME} : PowerControlAct(alarmNum)
    \/ \E id \in TransponderIDs, u \in BOOLEAN : ControlUpdateIDAct(id, u)
    \/ PlayRecActionAct
    \/ \E rnd \in 0 .. MaxRand : AudioCheckAct(rnd)
    \/ AudioReadyAct
    \/ \E b \in WireBytes : ReplyAct(b)
    \/ TxAct

Spec == Init /\ [][Next]_vars

(* The protocol engine under power control with no transponder in sight:   *)
(* the error counter runs through its whole range.                          *)
NextCom ==
    \/ \E alarmNum \in {ALARM_ON_TIME_1, ALARM_OFF_TIME} : PowerControlAct(alarmNum)
    \/ \E rnd \in 0 .. MaxRand : AudioCheckAct(rnd)
    \/ AudioComTimeoutAct
    \/ \E b \in WireBytes : RxAct(b)
    \/ TxAct

SpecCom == Init /\ [][NextCom]_vars

(* One power window with a module that answers every command and reports  *)
(* a non-empty value, but lets up to MaxTimeouts commands time out.  The   *)
(* main loop keeps polling, armed timers expire and the module answers a   *)
(* command it does not let time out.                                        *)
WindowOpensAct ==
    /\ ~ l_flgAudioRfidPower
    /\ PowerControlAct(ALARM_ON_TIME_1)

TimeoutAct ==
    /\ IsErrorExpiry => l_ComErrorCnt < MaxTimeouts
    /\ AudioComTimeoutAct

GoodReplyAct(rxData) ==
    /\ ~ (/\ l_State \in {AUDIO_GET_SPACE_LEFT, AUDIO_GET_FILE_NUMBERS}
          /\ l_CheckData = 3
          /\ rxData = 0)
    /\ ReplyAct(rxData)

NextRecover ==
    \/ WindowOpensAct
    \/ \E rnd \in 0 .. MaxRand : AudioCheckAct(rnd)
    \/ TimeoutAct
    \/ \E b \in WireBytes : GoodReplyAct(b)
    \/ TxAct

SpecRecover ==
    /\ Init /\ [][NextRecover]_vars
    /\ WF_vars(\E rnd \in 0 .. MaxRand : AudioCheckAct(rnd))
    /\ WF_vars(TimeoutAct)
    /\ WF_vars(\E b \in WireBytes : GoodReplyAct(b))

(* The command builders on their own: a ready engine with any valid        *)
(* configuration, any record sequence number and any playback type builds  *)
(* one command.                                                             *)
ValidVC == 1 .. 31
ValidST == 0 .. 1
ValidIM == 0 .. 2
ValidRQ == 0 .. 3
PlayTypes == 1 .. 9
RecordNumbers == 0 .. MAX_RECORD_FILES

InitFn ==
    /\ l_flgInit = FALSE
    /\ l_flgAudioOn = TRUE
    /\ l_flgAudioIsOn = TRUE
    /\ l_State = AUDIO_STATE_OPERATIONAL
    /\ l_hdlWdog = T_IDLE
    /\ l_flgTxComplete = TRUE
    /\ l_ComErrorCnt = 0
    /\ l_RxBuffer = <<EOS, EOS, EOS>>
    /\ l_RxIdx = 1
    /\ l_CheckData = 1
    /\ l_flgComCompleted = TRUE
    /\ digits = <<0, 0, 0>>
    /\ PlaybackFileNumber = 0
    /\ l_flgIsPlayAction = FALSE
    /\ l_flgIsRecordBlocked = FALSE
    /\ l_flgIsRecAction = FALSE
    /\ l_flgAudioInitIsDone = TRUE
    /\ l_flgSingleAction = FALSE
    /\ l_flgLocked = FALSE
    /\ txIEN = FALSE
    /\ l_flgAudioActivate = TRUE
    /\ buffer = << >>
    /\ PwrOut = [o \in 0 .. NUM_PWR_OUT - 1 |-> o = g_AudioPower]
    /\ l_PlayType = DFLT_PLAY_TYPE
    /\ l_KeepPlayback = DFLT_KEEP_PLAYING_DURATION
    /\ l_KeepRecord = DFLT_KEEP_RECORD_DURATION
    /\ l_hdlPlayRec = T_IDLE
    /\ l_flgPlaybackRun = TRUE
    /\ l_flgPlaybackIsRun = FALSE
    /\ l_flgAudioRfidPower = TRUE
    /\ l_flgTwiceIDLocked = FALSE
    /\ l_flgAudioPlayRun = FALSE
    /\ l_flgAudioPlayStop = FALSE
    /\ l_flgAudioRecRun = FALSE
    /\ l_flgAudioRecStop = FALSE
    /\ sent = << >>
    /\ log = << >>
    /\ playActive = FALSE
    /\ recActive = FALSE
    /\ playSentSinceID = FALSE
    /\ lockedPeriod = "none"
    /\ \/ /\ g_AudioCfg_VC \in ValidVC
          /\ g_AudioCfg_ST \in ValidST
          /\ g_AudioCfg_IM \in ValidIM
          /\ g_AudioCfg_RQ \in ValidRQ
          /\ RecordFileNumber = 0
          /\ AudioPlaybackType = DFLT_PLAY_TYPE
       \/ /\ g_AudioCfg_VC = 20
          /\ g_AudioCfg_ST = 0
          /\ g_AudioCfg_IM = 1
          /\ g_AudioCfg_RQ = 2
          /\ RecordFileNumber \in RecordNumbers
          /\ AudioPlaybackType \in PlayTypes
    /\ ctlPlaybackType = AudioPlaybackType

(* AudioSendCmdSeq() for a query, a setting or a stop command *)
AudioSendCmdSeqAct(state) ==
    /\ l_State = AUDIO_STATE_OPERATIONAL
    /\ state \in CmdStates \ {AUDIO_SEND_PLAYBACK, AUDIO_SEND_RECORD}
    /\ Commit(AudioSendCmdSeq(Enter(Cur), state))

AudioPlaybackAct(rnd) ==
    /\ l_State = AUDIO_STATE_OPERATIONAL
    /\ rnd \in 0 .. MaxRandOutcome
    /\ Commit(AudioPlayback(Enter(Cur), rnd))

AudioRecordAct ==
    /\ l_State = AUDIO_STATE_OPERATIONAL
    /\ Commit(AudioRecord(Enter(Cur)))

NextFn ==
    \/ \E state \in CmdStates : AudioSendCmdSeqAct(state)
    \/ \E rnd \in 0 .. MaxRandOutcome : AudioPlaybackAct(rnd)
    \/ AudioRecordAct

SpecFn == InitFn /\ [][NextFn]_vars

(* One power window with all handlers, up to MaxTimeouts counted timeouts  *)
(* and the power-fail interrupt: the supply voltage may drop at any moment. *)
PowerFailAct ==
    /\ Commit(l_PowerFailFct(Enter(Cur)))

NextPowerFail ==
    \/ WindowOpensAct
    \/ \E id \in TransponderIDs, u \in BOOLEAN : ControlUpdateIDAct(id, u)
    \/ PlayRecActionAct
    \/ \E rnd \in 0 .. MaxRand : AudioCheckAct(rnd)
    \/ TimeoutAct
    \/ \E b \in WireBytes : ReplyAct(b)
    \/ TxAct
    \/ PowerFailAct

SpecPowerFail == Init /\ [][NextPowerFail]_vars

(* One power window with a module that sends any bytes at any time and as  *)
(* many as it likes; no command times out.                                  *)
RxAnyAct(rxData) ==
    /\ PwrOut[g_AudioPower]
    /\ rxData \in RxBytes
    /\ Commit(USART0_RX_IRQHandler(Enter(Cur), rxData))

NextRx ==
    \/ WindowOpensAct
    \/ \E rnd \in 0 .. MaxRand : AudioCheckAct(rnd)
    \/ AudioReadyAct
    \/ \E b \in RxBytes : RxAnyAct(b)
    \/ TxAct

SpecRx == Init /\ [][NextRx]_vars

(* One power window with a module that answers every command as the data   *)
(* sheet says and reports any value: a work status (1 playing, 2 stopped,  *)
(* 3 paused, 4 recording, 5 fast forward/backward; 0 and 6 are no work      *)
(* status), a capacity and a file count of two bytes each.                  *)
WorkStatusValues == 1 .. 5
WorkStatusBytes  == 0 .. 6
CapacityHi  == {0, 1}
CapacityLo  == {0, 5}
FileCountHi == {0, 1}
FileCountLo == {0, 3, 7}

ReplyValueInput ==
    IF l_State = AUDIO_STATE_POWER_ON
    THEN IF sTimerIsRunning(l_hdlWdog) THEN {}
         ELSE IF l_CheckData = 1 THEN {OP_CONNECT} ELSE {0}
    ELSE IF ~ sTimerIsRunning(l_hdlWdog) /\ l_CheckData = 1 THEN {}
    ELSE CASE l_State = AUDIO_GET_WORK_STATUS ->
                 IF l_CheckData = 1 THEN {OP_WORK} ELSE WorkStatusBytes
           [] l_State = AUDIO_GET_SPACE_LEFT ->
                 IF l_CheckData = 1 THEN {OP_SPACE}
                 ELSE IF l_CheckData = 2 THEN CapacityHi ELSE CapacityLo
           [] l_State = AUDIO_GET_FILE_NUMBERS ->
                 IF l_CheckData = 1 THEN {OP_FILES}
                 ELSE IF l_CheckData = 2 THEN FileCountHi ELSE FileCountLo
           [] l_State \in AUDIO_STATE_SEND_VC .. AUDIO_STATE_SEND_RQ -> {0, 1}
           [] OTHER -> {}

ReplyValueAct(rxData) ==
    /\ PwrOut[g_AudioPower]
    /\ rxData \in ReplyValueInput
    /\ Commit(USART0_RX_IRQHandler(Enter(Cur), rxData))

NextReply ==
    \/ \E alarmNum \in {ALARM_ON_TIME_1, ALARM_OFF_TIME} : PowerControlAct(alarmNum)
    \/ \E rnd \in 0 .. MaxRand : AudioCheckAct(rnd)
    \/ AudioReadyAct
    \/ \E b \in 0 .. 255 : ReplyValueAct(b)
    \/ TxAct

SpecReply == Init /\ [][NextReply]_vars

(* One power window with all handlers and a module that answers as the     *)
(* data sheet says and, while the engine is Operational, reports a change   *)
(* of its storage devices by the connection status message (4.4.6: 0xCA     *)
(* and a status byte) on its own.                                           *)
StatusInput ==
    IF l_State = AUDIO_STATE_OPERATIONAL
    THEN IF l_CheckData = 1 THEN {OP_CONNECT} ELSE {0, 1}
    ELSE {}

StatusReplyAct(rxData) ==
    /\ PwrOut[g_AudioPower]
    /\ l_flgComCompleted \/ l_RxIdx < MaxRxIdx
    /\ rxData \in ReplyInput \cup StatusInput
    /\ Commit(USART0_RX_IRQHandler(Enter(Cur), rxData))

NextStatus ==
    \/ WindowOpensAct
    \/ \E id \in TransponderIDs, u \in BOOLEAN : ControlUpdateIDAct(id, u)
    \/ PlayRecActionAct
    \/ \E rnd \in 0 .. MaxRand : AudioCheckAct(rnd)
    \/ AudioReadyAct
    \/ \E b \in WireBytes : StatusReplyAct(b)
    \/ TxAct

SpecStatus == Init /\ [][NextStatus]_vars

(* One power window with all handlers and a module that answers as the     *)
(* data sheet says and only after it has received the whole command, i.e.   *)
(* after the transmit interrupt has sent the last byte of the frame.        *)
ReplyAfterTxAct(rxData) ==
    /\ ~ txIEN
    /\ ReplyAct(rxData)

NextTx ==
    \/ WindowOpensAct
    \/ \E id \in TransponderIDs, u \in BOOLEAN : ControlUpdateIDAct(id, u)
    \/ PlayRecActionAct
    \/ \E rnd \in 0 .. MaxRand : AudioCheckAct(rnd)
    \/ AudioReadyAct
    \/ \E b \in WireBytes : ReplyAfterTxAct(b)
    \/ TxAct

SpecTx == Init /\ [][NextTx]_vars

(* An open power window with the engine operational and ready, where the   *)
(* keep-alive timer expires when it runs, the main loop keeps polling       *)
(* AudioCheck(), the transmit interrupt is served and the module answers    *)
(* every command it has received with the status done (0) or failed (1).    *)
InitLock ==
    /\ InitFn
    /\ g_AudioCfg_VC = 20
    /\ g_AudioCfg_ST = 0
    /\ g_AudioCfg_IM = 1
    /\ g_AudioCfg_RQ = 2
    /\ RecordFileNumber = 0
    /\ AudioPlaybackType = DFLT_PLAY_TYPE

StatusAct(rxData) ==
    /\ rxData \in {0, 1}
    /\ ReplyAfterTxAct(rxData)

NextLock ==
    \/ \E id \in {"BIRD01", "BIRD02"} : ControlUpdateIDAct(id, FALSE)
    \/ PlayRecActionAct
    \/ \E rnd \in 0 .. MaxRand : AudioCheckAct(rnd)
    \/ \E b \in {0, 1} : StatusAct(b)
    \/ TxAct

SpecLock ==
    /\ InitLock /\ [][NextLock]_vars
    /\ WF_vars(PlayRecActionAct)
    /\ WF_vars(\E rnd \in 0 .. MaxRand : AudioCheckAct(rnd))
    /\ WF_vars(TxAct)
    /\ WF_vars(\E b \in {0, 1} : StatusAct(b))

(* The configuration file is read and AudioInit() runs; then one power   *)
(* window with a module that answers as the data sheet says.  The values *)
(* CONFIG.TXT gives the four AUDIO_CFG_xx variables include values on    *)
(* and beyond the limits of their ranges.                                *)
CfgVC == {0, 1, 20, 31, 32, 33, 78}
CfgST == {0, 1, 2}
CfgIM == {0, 1, 2, 3}
CfgRQ == {0, 3, 4}

(* the state before CONFIG.TXT has been read: ClearConfiguration() *)
InitCfg ==
    /\ l_flgInit = FALSE
    /\ l_flgAudioOn = FALSE
    /\ l_flgAudioIsOn = FALSE
    /\ l_State = AUDIO_STATE_OFF
    /\ l_hdlWdog = T_IDLE
    /\ l_flgTxComplete = FALSE
    /\ l_ComErrorCnt = 0
    /\ l_RxBuffer = <<EOS, EOS, EOS>>
    /\ l_RxIdx = 0
    /\ l_CheckData = 1
    /\ l_flgComCompleted = FALSE
    /\ RecordFileNumber = 0
    /\ digits = <<0, 0, 0>>
    /\ AudioPlaybackType = 0
    /\ PlaybackFileNumber = 0
    /\ l_flgIsPlayAction = FALSE
    /\ l_flgIsRecordBlocked = FALSE
    /\ l_flgIsRecAction = FALSE
    /\ l_flgAudioInitIsDone = FALSE
    /\ l_flgSingleAction = FALSE
    /\ l_flgLocked = FALSE
    /\ txIEN = FALSE
    /\ l_flgAudioActivate = FALSE
    /\ buffer = << >>
    /\ g_AudioCfg_VC = 0
    /\ g_AudioCfg_ST = 0
    /\ g_AudioCfg_IM = 0
    /\ g_AudioCfg_RQ = 0
    /\ PwrOut = [o \in 0 .. NUM_PWR_OUT - 1 |-> FALSE]
    /\ l_PlayType = DFLT_PLAY_TYPE
    /\ l_KeepPlayback = DFLT_KEEP_PLAYING_DURATION
    /\ l_KeepRecord = DFLT_KEEP_RECORD_DURATION
    /\ l_hdlPlayRec = T_IDLE
    /\ l_flgPlaybackRun = TRUE
    /\ l_flgPlaybackIsRun = FALSE
    /\ l_flgAudioRfidPower = FALSE
    /\ l_flgTwiceIDLocked = FALSE
    /\ l_flgAudioPlayRun = FALSE
    /\ l_flgAudioPlayStop = FALSE
    /\ l_flgAudioRecRun = FALSE
    /\ l_flgAudioRecStop = FALSE
    /\ ctlPlaybackType = 0
    /\ sent = << >>
    /\ log = << >>
    /\ playActive = FALSE
    /\ recActive = FALSE
    /\ playSentSinceID = FALSE
    /\ lockedPeriod = "none"

(* main(): CfgRead("CONFIG.TXT") sets the variables, AudioInit() follows *)
AudioInitAct(vc, st, im, rq) ==
    /\ ~ l_flgAudioActivate
    /\ Commit(AudioInit(Enter([Cur EXCEPT !.g_AudioCfg_VC = vc,
                                          !.g_AudioCfg_ST = st,
                                          !.g_AudioCfg_IM = im,
                                          !.g_AudioCfg_RQ = rq])))

(* the alarm times are checked after AudioInit() *)
CfgWindowOpensAct ==
    /\ l_flgAudioActivate
    /\ WindowOpensAct

NextCfg ==
    \/ \E vc \in CfgVC, st \in CfgST, im \in CfgIM, rq \in CfgRQ :
           AudioInitAct(vc, st, im, rq)
    \/ CfgWindowOpensAct
    \/ \E rnd \in 0 .. MaxRand : AudioCheckAct(rnd)
    \/ AudioReadyAct
    \/ \E b \in WireBytes : ReplyAfterTxAct(b)
    \/ TxAct

SpecCfg == InitCfg /\ [][NextCfg]_vars

(* ------------------------------ properties ------------------------------ *)
AudioPowered == PwrOut[g_AudioPower]

(* C1: while the power window is closed (from the PowerControl() call at   *)
(* the OFF time until the next call at an ON time) the module stays        *)
(* powered off and no frame is handed to the UART, whatever the engine was *)
(* doing when the window closed.                                            *)
C1_OffWhileWindowClosed ==
    ~ l_flgAudioRfidPower => (~ AudioPowered /\ sent = << >>)

(* C2: when AudioDisable() returns (here: called by PowerControl() at the  *)
(* OFF time) the communication watchdog is not armed.                      *)
C2_DisableCancelsWdog ==
    [][PowerControlAct(ALARM_OFF_TIME) => ~ sTimerIsRunning(l_hdlWdog')]_vars

(* C3: AudioDisable(), called in any state, leaves the power rail off, the *)
(* engine in state Off, the init-done flag and the lock flag false.         *)
C3_DisableLeavesOff ==
    [][PowerControlAct(ALARM_OFF_TIME) =>
          /\ ~ AudioPowered'
          /\ l_State' = AUDIO_STATE_OFF
          /\ ~ l_flgAudioInitIsDone'
          /\ ~ l_flgLocked']_vars

(* C4: the lock flag is true exactly while a playback or record command    *)
(* has been sent and its stop has not completed.                            *)
C4_LockIffActionActive ==
    l_flgLocked <=> (playActive \/ recActive)

(* C5: at most one audio action is outstanding: a playback and a record    *)
(* are never active at the same time.                                       *)
C5_OneActionOutstanding ==
    ~ (playActive /\ recActive)

IsControlUpdateID ==
    \E id \in TransponderIDs, u \in BOOLEAN : ControlUpdateIDAct(id, u)

NoRequestRaised ==
    UNCHANGED << l_flgAudioPlayRun, l_flgAudioPlayStop, l_flgAudioRecRun,
                 l_flgAudioRecStop, l_flgPlaybackRun, l_flgPlaybackIsRun,
                 ctlPlaybackType, l_hdlPlayRec >>

IdValuesUnchanged ==
    UNCHANGED << l_KeepPlayback, l_KeepRecord, l_PlayType >>

AwaitingReply ==
    l_State \in CmdStates /\ sTimerIsRunning(l_hdlWdog)

(* C7: the engine starts a command (AudioSendCmdSeq() from the main-loop   *)
(* poll or from the watchdog callback) only when no earlier command awaits *)
(* its reply, and one at a time.                                            *)
C7_OneCommandInFlight ==
    [][((AudioComTimeoutAct \/ \E rnd \in 0 .. MaxRand : AudioCheckAct(rnd))
        /\ sent' # << >>) =>
          (~ AwaitingReply /\ Len(sent') = 1)]_vars

(* C8: the error counter stays within 0 .. MAX_COM_ERROR_CNT + 1. *)
C8_ErrorCntRange ==
    l_ComErrorCnt \in 0 .. MAX_COM_ERROR_CNT + 1

(* the counter has reached its largest value *)
C8_Witness ==
    l_ComErrorCnt = MAX_COM_ERROR_CNT + 1

(* C9: after the error counter reached MAX_COM_ERROR_CNT + 1, a module     *)
(* that was disabled and enabled again still runs its initialization: the  *)
(* expiry of the power-up delay sends the first query.                      *)
C9_RestartAfterBudget ==
    [][(/\ l_ComErrorCnt = MAX_COM_ERROR_CNT + 1
        /\ l_State = AUDIO_STATE_POWER_ON
        /\ AudioPowered
        /\ AudioComTimeoutAct) =>
          /\ l_State' \in {AUDIO_GET_WORK_STATUS, AUDIO_GET_FILE_NUMBERS}
          /\ sent' # << >>]_vars

(* the effect C10 describes: error counted, module off, Recovering, the    *)
(* 60-unit timer armed                                                      *)
RecoveryStarted ==
    /\ l_ComErrorCnt' = l_ComErrorCnt + 1
    /\ ~ AudioPowered'
    /\ ~ l_flgAudioOn'
    /\ l_State' = AUDIO_STATE_RECOVER
    /\ l_hdlWdog' = 60

C11_OverBudgetForcesOff ==
    [][(/\ AudioComTimeoutAct
        /\ l_ComErrorCnt <= MAX_COM_ERROR_CNT
        /\ l_ComErrorCnt' > MAX_COM_ERROR_CNT) =>
          /\ ~ l_flgAudioOn'
          /\ ~ AudioPowered'
          /\ l_State' = AUDIO_STATE_OFF
          /\ ~ sTimerIsRunning(l_hdlWdog')]_vars

(* the watchdog expires while the first work-status query is pending and   *)
(* no error has been counted                                                *)
FirstQueryTimeout ==
    /\ AudioComTimeoutAct
    /\ l_State = AUDIO_GET_WORK_STATUS
    /\ l_ComErrorCnt = 0

(* the engine has given up: disabled, power off, state Off, no recovery    *)
(* timer, no error counted                                                  *)
GivenUp ==
    /\ ~ l_flgAudioOn'
    /\ ~ AudioPowered'
    /\ l_State' = AUDIO_STATE_OFF
    /\ ~ sTimerIsRunning(l_hdlWdog')
    /\ l_ComErrorCnt' = l_ComErrorCnt

(* C12 as stated: the first failure of the very first work-status query is *)
(* not yet treated as "peripheral not present": the engine is not disabled *)
(* at that expiry.                                                          *)
C12_FirstFailureRetries ==
    [][FirstQueryTimeout => ~ (l_State' = AUDIO_STATE_OFF /\ ~ l_flgAudioOn')]_vars

(* C12 amended: already the first watchdog expiry of the very first        *)
(* work-status query (no error counted yet) is treated as "peripheral not  *)
(* present": the module is disabled and powered off, the state is Off, no  *)
(* recovery is scheduled and the error is not counted.                      *)
C12_FirstFailureGivesUp ==
    [][FirstQueryTimeout => GivenUp]_vars

(* the first query has timed out and the engine has given up *)
C12_Witness ==
    /\ l_State = AUDIO_STATE_OFF
    /\ ~ l_flgAudioOn /\ ~ AudioPowered
    /\ l_ComErrorCnt = 0
    /\ log = << "LogError: Audio: Timeout during initialization",
                "Audio is powered off" >>

(* the frames of the data sheet: start marker, length, opcode, parameters, *)
(* checksum (low byte of the sum of length, opcode and parameters), end    *)
(* marker                                                                   *)
RECURSIVE SumOf(_)
SumOf(q) == IF q = << >> THEN 0 ELSE Head(q) + SumOf(Tail(q))

Packet(body) == << 126 >> \o body \o << SumOf(body) % 256, 126 >>

(* three decimal digits of n as ASCII characters *)
Digits3(n) == << 48 + ((n \div 100) % 10), 48 + ((n \div 10) % 10),
                 48 + (n % 10) >>

(* 4.3.2 play file P<nnn>, 4.3.17 record file R<nnn>, 4.3.6, 4.3.20 *)
PlayFileCmd(n)   == Packet(<< 7, 163, 80 >> \o Digits3(n))
RecordFileCmd(n) == Packet(<< 7, 214, 82 >> \o Digits3(n))
StopPlayCmd      == Packet(<< 3, 171 >>)
StopRecordCmd    == Packet(<< 3, 217 >>)

(* the handler has handed this frame to SendCmd() for this state *)
HasSent(state, frame) ==
    \E i \in 1 .. Len(sent') : sent'[i] = [state |-> state, frame |-> frame]

IsAudioCheck == \E rnd \in 0 .. MaxRand : AudioCheckAct(rnd)

(* the module is enabled and powered, the initialization is complete *)
EngineReady == l_flgAudioOn /\ l_flgAudioIsOn /\ l_flgAudioInitIsDone

(* C13: for the ID BIRD01 (KeepPlayback 5, KeepRecord 10, PlayType 2):     *)
(* ControlUpdateID() while unlocked raises the playback request with type  *)
(* 2 and arms the 5-unit keep-alive timer; the next poll of a ready engine *)
(* sends the playback command for file 2 and sets the lock; the expiry of  *)
(* the timer raises stop-playback and the record request and arms the      *)
(* 10-unit timer; the polls send stop-playback and then the record command *)
(* with the next sequence number; the expiry of that timer raises          *)
(* stop-record, the poll sends it, and its reply clears the lock.           *)
C13_PlaybackThenRecord ==
    [][/\ (~ l_flgLocked /\ \E u \in BOOLEAN : ControlUpdateIDAct("BIRD01", u)) =>
             /\ l_KeepPlayback' = 5 /\ l_KeepRecord' = 10 /\ l_PlayType' = 2
             /\ l_flgAudioPlayRun' /\ ~ l_flgAudioPlayStop'
             /\ ctlPlaybackType' = 2
             /\ l_hdlPlayRec' = 5
       /\ (/\ EngineReady
           /\ l_flgAudioPlayRun /\ ~ l_flgAudioPlayStop /\ ~ l_flgIsPlayAction
           /\ ctlPlaybackType = 2
           /\ IsAudioCheck) =>
             /\ HasSent(AUDIO_SEND_PLAYBACK, PlayFileCmd(2))
             /\ l_flgLocked'
       /\ (l_flgPlaybackRun /\ l_KeepRecord = 10 /\ PlayRecActionAct) =>
             /\ l_flgAudioPlayStop' /\ ~ l_flgAudioPlayRun'
             /\ l_flgAudioRecRun' /\ ~ l_flgAudioRecStop'
             /\ l_hdlPlayRec' = 10
       /\ (/\ l_flgAudioOn /\ l_flgAudioIsOn
           /\ l_flgAudioPlayStop /\ ~ l_flgAudioPlayRun /\ l_flgIsPlayAction
           /\ IsAudioCheck) =>
             HasSent(AUDIO_SEND_PLAYBACK_STOP, StopPlayCmd)
       /\ (/\ EngineReady
           /\ l_flgAudioRecRun /\ ~ l_flgAudioRecStop /\ ~ l_flgIsRecAction
           /\ ~ l_flgIsRecordBlocked
           /\ ~ (l_flgAudioPlayRun /\ ~ l_flgAudioPlayStop /\ ~ l_flgIsPlayAction)
           /\ IsAudioCheck) =>
             /\ HasSent(AUDIO_SEND_RECORD, RecordFileCmd(RecordFileNumber + 1))
             /\ RecordFileNumber' = RecordFileNumber + 1
             /\ l_flgLocked'
       /\ (~ l_flgPlaybackRun /\ PlayRecActionAct) =>
             /\ l_flgAudioRecStop' /\ ~ l_flgAudioRecRun'
             /\ ~ sTimerIsRunning(l_hdlPlayRec')
       /\ (/\ l_flgAudioOn /\ l_flgAudioIsOn
           /\ l_flgAudioRecStop /\ ~ l_flgAudioRecRun /\ l_flgIsRecAction
           /\ IsAudioCheck) =>
             HasSent(AUDIO_SEND_RECORD_STOP, StopRecordCmd)
       /\ (l_State = AUDIO_SEND_RECORD_STOP /\ ReplyAct(0)) =>
             /\ ~ l_flgLocked'
             /\ l_State' = AUDIO_STATE_OPERATIONAL]_vars

(* the playback phase of BIRD01 is over and the record command of its      *)
(* record phase has just been sent                                          *)
C13_Witness ==
    /\ l_KeepPlayback = 5 /\ ctlPlaybackType = 2
    /\ l_flgAudioPlayStop /\ ~ l_flgIsPlayAction /\ ~ playActive
    /\ playSentSinceID
    /\ l_hdlPlayRec = 10
    /\ l_State = AUDIO_SEND_RECORD
    /\ sent = << [state |-> AUDIO_SEND_RECORD, frame |-> RecordFileCmd(1)] >>
    /\ l_flgLocked

(* the state of the orchestrator: effective durations, play type, phase    *)
(* and request flags, the keep-alive timer                                  *)
OrchestratorUnchanged ==
    UNCHANGED << l_KeepPlayback, l_KeepRecord, l_PlayType, l_flgPlaybackRun,
                 l_flgPlaybackIsRun, l_flgTwiceIDLocked, l_flgAudioPlayRun,
                 l_flgAudioPlayStop, l_flgAudioRecRun, l_flgAudioRecStop,
                 ctlPlaybackType, l_hdlPlayRec >>

(* C14: ControlUpdateID() with an ID that has no entry, with no ANY and no *)
(* UNKNOWN entry configured, drops the event: no command is issued, the    *)
(* lock flag and the state of the orchestrator do not change, and exactly  *)
(* one log entry is written.                                                *)
C14_UnknownIdIsDropped ==
    [][(\E u \in BOOLEAN : ControlUpdateIDAct("BIRD99", u)) =>
          /\ sent' = << >>
          /\ l_flgLocked' = l_flgLocked
          /\ OrchestratorUnchanged
          /\ Len(log') = 1]_vars

(* an ID without entry was reported and dropped *)
C14_Witness ==
    log = << "Transponder: not found - aborting" >>

(* the handler has handed a frame to SendCmd() for this state *)
HasSentFor(states) ==
    \E i \in 1 .. Len(sent') : sent'[i].state \in states

(* C19: once the playback command of a playback phase has been sent, no    *)
(* further playback command is sent (by the keep-alive expiry, by the poll *)
(* or after a power cycle) unless ControlUpdateID() is called again.        *)
C19_NoPlaybackRetrigger ==
    [][/\ (playSentSinceID /\ IsAudioCheck) => ~ HasSentFor({AUDIO_SEND_PLAYBACK})
       /\ PlayRecActionAct =>
             (sent' = << >> /\ (l_flgAudioPlayRun' => l_flgAudioPlayRun))]_vars

(* C20: the poll sends a playback or record command only when the          *)
(* init-done flag is true; while it is false a pending request causes no   *)
(* playback or record frame.                                                *)
C20_CommandOnlyWhenReady ==
    [][(~ l_flgAudioInitIsDone /\ IsAudioCheck) =>
          ~ HasSentFor({AUDIO_SEND_PLAYBACK, AUDIO_SEND_RECORD})]_vars

(* the poll has found a pending playback request with the engine not ready *)
C20_Witness ==
    /\ l_flgAudioPlayRun /\ ~ l_flgAudioPlayStop /\ ~ l_flgIsPlayAction
    /\ ~ l_flgAudioInitIsDone
    /\ sent = << >>
    /\ log = << "Audio: Playback and Record are locked" >>

(* the resource-exhaustion error of AudioRecord() was logged *)
RecordLimitLogged ==
    \E i \in 1 .. Len(log') :
        log'[i] = "LogError: Audio: Supports maximum 999 record files"

(* C15: with the record sequence counter at 999, AudioRecord() still sends *)
(* a record command, its three digits are saturated at "999" and the       *)
(* resource-exhaustion error is raised.                                     *)
C15_SaturatesAt999 ==
    [][(RecordFileNumber = MAX_RECORD_FILES /\ AudioRecordAct) =>
          /\ HasSent(AUDIO_SEND_RECORD, RecordFileCmd(MAX_RECORD_FILES))
          /\ digits' = << 57, 57, 57 >>
          /\ RecordLimitLogged]_vars

(* the file selected by the playback command just sent *)
SelectedFile == PlaybackFileNumber - 48

PlaybackSent ==
    /\ l_State = AUDIO_SEND_PLAYBACK
    /\ sent = << [state |-> AUDIO_SEND_PLAYBACK,
                  frame |-> PlayFileCmd(SelectedFile)] >>

(* C17 as stated: AudioPlayback() selects the file PlayType for PlayType   *)
(* 1..5, and for PlayType 6..9 only files 1..(PlayType-5), whatever rand() *)
(* returns.                                                                 *)
C17_RandomAmongTypeMinus5 ==
    l_State = AUDIO_SEND_PLAYBACK =>
       /\ AudioPlaybackType \in 1 .. 5 => SelectedFile = AudioPlaybackType
       /\ AudioPlaybackType \in 6 .. 9 =>
              SelectedFile \in 1 .. (AudioPlaybackType - 5)

(* C17 amended: AudioPlayback() selects the file PlayType for PlayType     *)
(* 1..5, and for PlayType 6..9 only files 1..(PlayType-4) (type 6: files 1 *)
(* and 2, type 9: files 1 to 5), whatever rand() returns; the playback     *)
(* command names that file.                                                 *)
C17_RandomAmongTypeMinus4 ==
    l_State = AUDIO_SEND_PLAYBACK =>
       /\ PlaybackSent
       /\ AudioPlaybackType \in 1 .. 5 => SelectedFile = AudioPlaybackType
       /\ AudioPlaybackType \in 6 .. 9 =>
              SelectedFile \in 1 .. (AudioPlaybackType - 4)

(* PlayType 9 has selected the fifth file *)
C17_Witness ==
    /\ AudioPlaybackType = 9
    /\ PlaybackSent
    /\ SelectedFile = 5

(* the checksum byte of a frame is the low byte of the sum of the bytes    *)
(* between the start marker and the checksum                                *)
ChecksumValid(f) ==
    /\ Len(f) >= 5
    /\ f[1] = 126 /\ f[Len(f)] = 126
    /\ f[Len(f) - 1] = SumOf(SubSeq(f, 2, Len(f) - 2)) % 256

(* C18: every frame AudioSendCmdSeq() builds from valid parameters carries *)
(* a checksum byte equal to the sum of its length, opcode and parameter    *)
(* bytes truncated to 8 bits.                                               *)
C18_ChecksumValid ==
    \A i \in 1 .. Len(sent) : ChecksumValid(sent[i].frame)

(* the record command for file 999 was built: the sum of its bytes does    *)
(* not fit in 8 bits                                                        *)
C18_Witness ==
    sent = << [state |-> AUDIO_SEND_RECORD,
               frame |-> RecordFileCmd(MAX_RECORD_FILES)] >>

(* C16: with the error budget of 10, each of three watchdog expirations    *)
(* during operation counts one error and power-cycles the module (power    *)
(* off, Recovering); the counter changes in no other way, so it reads 3    *)
(* after the third; and from Recovering the engine returns to Operational, *)
(* powered and initialized, with no further enable call.                    *)
C16_RecoversToOperational ==
    /\ [][(IsErrorExpiry /\ TimeoutAct) =>
             (/\ l_ComErrorCnt' = l_ComErrorCnt + 1
              /\ ~ AudioPowered'
              /\ l_State' = AUDIO_STATE_RECOVER)]_vars
    /\ [][(l_ComErrorCnt' # l_ComErrorCnt) => (IsErrorExpiry /\ TimeoutAct)]_vars
    /\ (l_State = AUDIO_STATE_RECOVER) ~>
           (/\ l_State = AUDIO_STATE_OPERATIONAL
            /\ AudioPowered
            /\ l_flgAudioInitIsDone)

(* three timeouts were counted and the engine is operational again *)
C16_Witness ==
    /\ l_ComErrorCnt = 3
    /\ l_State = AUDIO_STATE_OPERATIONAL
    /\ AudioPowered
    /\ l_flgAudioInitIsDone
(* C21: the power-fail handlers, in whatever state the engine is, switch   *)
(* every power output off, clear the audio enable request and hand no      *)
(* frame to the UART.                                                       *)
C21_PowerFailForcesAllOff ==
    [][PowerFailAct =>
          /\ \A o \in 0 .. NUM_PWR_OUT - 1 : ~ PwrOut'[o]
          /\ ~ l_flgAudioOn'
          /\ ~ l_flgAudioIsOn'
          /\ sent' = << >>]_vars

(* the power failed while a command was waiting for its reply *)
C21_Witness ==
    /\ log = << "Audio is powered off", "Switching all power outputs OFF" >>
    /\ sTimerIsRunning(l_hdlWdog)
    /\ ~ AudioPowered
    /\ ~ l_flgAudioOn
    /\ playSentSinceID
IsRxAny == \E b \in RxBytes \ {RX_IGNORE} : RxAnyAct(b)

(* C22: the receive index never leaves the 150-byte buffer, so no byte is   *)
(* stored outside it: the byte that finds the buffer full is replaced by a   *)
(* terminator and logged as an error, every further byte is dropped.         *)
C22_RxIndexWithinBuffer ==
    /\ [](l_RxIdx \in 0 .. RX_BUFFER_SIZE - 1)
    /\ [][(l_RxIdx = RX_BUFFER_SIZE - 2 /\ IsRxAny) =>
             /\ l_RxIdx' = RX_BUFFER_SIZE - 1
             /\ log' = << "LogError: Audio: l_RxBuffer full" >>
             /\ sent' = << >>]_vars
    /\ [][(l_RxIdx = RX_BUFFER_SIZE - 1 /\ IsRxAny) =>
             UNCHANGED << l_RxIdx, l_RxBuffer, l_State, l_CheckData >>]_vars

(* the buffer is full *)
C22_Witness ==
    /\ l_RxIdx = RX_BUFFER_SIZE - 1
    /\ log = << >>
(* 4.4.2 work status, 4.4.9 space left, 4.4.3 total file numbers *)
WorkStatusCmd == Packet(<< 3, 194 >>)
SpaceLeftCmd  == Packet(<< 3, 206 >>)
FileCountCmd  == Packet(<< 3, 197 >>)

(* the watchdog expires in PoweringOn *)
PowerUpSettled ==
    /\ l_State = AUDIO_STATE_POWER_ON
    /\ AudioComTimeoutAct

(* no error is counted and the first query is sent: the work status before  *)
(* the first query was ever sent, the file count afterwards                 *)
FirstQuerySent ==
    /\ l_ComErrorCnt' = l_ComErrorCnt
    /\ sent' = << IF l_flgInit
                  THEN [state |-> AUDIO_GET_WORK_STATUS, frame |-> WorkStatusCmd]
                  ELSE [state |-> AUDIO_GET_FILE_NUMBERS, frame |-> FileCountCmd] >>
    /\ l_State' = sent'[1].state
    /\ sTimerIsRunning(l_hdlWdog')
    /\ ~ l_flgInit'

WorkStatusReply(status) ==
    /\ l_State = AUDIO_GET_WORK_STATUS
    /\ l_RxBuffer[1] = OP_WORK
    /\ l_RxIdx = 1
    /\ ~ l_flgComCompleted
    /\ ReplyValueAct(status)

SpaceLeftReply(hi, lo) ==
    /\ l_State = AUDIO_GET_SPACE_LEFT
    /\ l_RxBuffer[1] = OP_SPACE
    /\ l_RxBuffer[2] = hi
    /\ l_RxIdx = 2
    /\ ~ l_flgComCompleted
    /\ ReplyValueAct(lo)

ErrorRaised == \E i \in 1 .. Len(log') : log'[i] = "SetError(ERR_SRC_AUDIO)"

(* C25: in QuerySpaceLeft a reply reporting the capacity zero raises the    *)
(* error and sends no command; a reply reporting any nonzero capacity sends *)
(* the QueryFileCount command.                                              *)
C25_SpaceLeftBranch ==
    [][\A hi \in CapacityHi, lo \in CapacityLo :
          SpaceLeftReply(hi, lo) =>
              IF hi * 256 + lo = 0
              THEN /\ ErrorRaised
                   /\ sent' = << >>
              ELSE /\ ~ ErrorRaised
                   /\ l_State' = AUDIO_GET_FILE_NUMBERS
                   /\ sent' = << [state |-> AUDIO_GET_FILE_NUMBERS,
                                  frame |-> FileCountCmd] >>]_vars
(* 4.3.9 volume control *)
VolumeCmd(vc) == Packet(<< 4, 174, vc >>)

(* the module sends the last byte of its file-count reply, which reports    *)
(* the total hi * 256 + lo                                                  *)
FileCountReply(hi, lo) ==
    /\ l_State = AUDIO_GET_FILE_NUMBERS
    /\ l_RxBuffer[1] = OP_FILES
    /\ l_RxBuffer[2] = hi
    /\ l_RxIdx = 2
    /\ ~ l_flgComCompleted
    /\ ReplyValueAct(lo)

(* C26: on the QueryFileCount reply, whatever total it reports, the record  *)
(* sequence baseline becomes the total minus the five playback files and    *)
(* the SendVolume command is sent.                                          *)
C26_BaselineIsTotalMinusFive ==
    [][\A hi \in FileCountHi, lo \in FileCountLo :
          FileCountReply(hi, lo) =>
              /\ RecordFileNumber' = hi * 256 + lo - 5
              /\ l_State' = AUDIO_STATE_SEND_VC
              /\ sent' = << [state |-> AUDIO_STATE_SEND_VC,
                             frame |-> VolumeCmd(g_AudioCfg_VC)] >>]_vars
IsReply == \E b \in WireBytes : ReplyAct(b)

(* C27: during the initialization the configuration commands go out in the  *)
(* order SendVolume, SendStorageDevice, SendInputMode, SendRecordQuality:   *)
(* each of the last three is sent by the reply to its predecessor, and      *)
(* while one of the first three awaits its reply the only command sent is   *)
(* its successor, by that reply.                                            *)
C27_ConfigInOrder ==
    /\ [][HasSentFor({AUDIO_STATE_SEND_ST, AUDIO_STATE_SEND_IM,
                      AUDIO_STATE_SEND_RQ}) =>
             /\ l_State \in {AUDIO_STATE_SEND_VC, AUDIO_STATE_SEND_ST,
                             AUDIO_STATE_SEND_IM}
             /\ Len(sent') = 1
             /\ sent'[1].state = l_State + 1
             /\ IsReply]_vars
    /\ [][(/\ l_State \in {AUDIO_STATE_SEND_VC, AUDIO_STATE_SEND_ST,
                            AUDIO_STATE_SEND_IM}
           /\ sent' # << >>) =>
             /\ Len(sent') = 1
             /\ sent'[1].state = l_State + 1
             /\ IsReply]_vars
(* the module sends a byte that the receive handler hands to CheckAudioData() *)
IsRx == \E b \in WireBytes \ {RX_IGNORE} : RxAct(b)

(* C28: the reply to SendRecordQuality sets the init-done flag, clears the  *)
(* communication error count and moves the engine to Operational.           *)
C28_RecordQualityReplyMakesReady ==
    [][(l_State = AUDIO_STATE_SEND_RQ /\ IsRx) =>
          /\ l_flgAudioInitIsDone'
          /\ l_ComErrorCnt' = 0
          /\ l_State' = AUDIO_STATE_OPERATIONAL]_vars
(* the reply opcode a query expects *)
ExpectedOpcode(state) ==
    CASE state = AUDIO_GET_WORK_STATUS  -> OP_WORK
      [] state = AUDIO_GET_SPACE_LEFT   -> OP_SPACE
      [] state = AUDIO_GET_FILE_NUMBERS -> OP_FILES

(* a query awaits its reply and the first byte the module sends is not the  *)
(* expected reply opcode                                                    *)
MalformedReply ==
    /\ l_State \in {AUDIO_GET_WORK_STATUS, AUDIO_GET_SPACE_LEFT,
                    AUDIO_GET_FILE_NUMBERS}
    /\ sTimerIsRunning(l_hdlWdog)
    /\ l_flgComCompleted \/ l_RxIdx = 0
    /\ \E b \in WireBytes \ {RX_IGNORE, ExpectedOpcode(l_State)} : RxAct(b)

(* C29: a malformed reply is handled like a timeout: the error is counted   *)
(* and the module is power-cycled through Recovering or, over the budget,    *)
(* left without recovery; at the least the watchdog stays armed, so that    *)
(* its expiry does so.                                                      *)
C29_MalformedReplyCountsAsTimeout ==
    [][MalformedReply =>
          \/ /\ l_ComErrorCnt' = l_ComErrorCnt + 1
             /\ l_State' \in {AUDIO_STATE_RECOVER, AUDIO_STATE_OFF}
          \/ sTimerIsRunning(l_hdlWdog')]_vars
(* C30: the receive buffer starts anew with every exchange: the first byte  *)
(* the module sends after a command is stored at index 0, where the reply   *)
(* handler of the command's state reads it.                                 *)
C30_ReplyStartsAtIndexZero ==
    [][\A b \in WireBytes \ {RX_IGNORE} :
          (AwaitingReply /\ StatusReplyAct(b)) =>
              /\ l_RxIdx' = 1
              /\ l_RxBuffer'[1] = b]_vars

(* SendCmd() found the previous frame not yet transmitted completely *)
PreviousCommandPending ==
    \E i \in 1 .. Len(log') :
        log'[i] = "LogError: SendCmd: Previous command still pending"

(* C31: SendCmd() never copies a new frame into the transmit buffer while *)
(* the previous frame has not been transmitted completely, i.e. every     *)
(* frame a handler hands to SendCmd() finds l_flgTxComplete set.          *)
C31_NoSendWhileTxPending ==
    [][sent' # << >> => ~ PreviousCommandPending]_vars

(* C32: while a request is pending and the engine is not ready, AudioCheck() *)
(* logs the locked condition once, on the first such poll, and not again on  *)
(* a later poll: every not-ready period, also one that follows a power-off,  *)
(* has exactly one log entry once a poll found a request waiting.            *)
C32_LockedLoggedOncePerPeriod == lockedPeriod \in {"none", "logged"}

(* C33: AudioRecord() reports the "maximum 999 record files" error if and *)
(* only if the incremented record sequence counter exceeds 999; no error   *)
(* is reported for a counter value in 1..999.                              *)
C33_LimitErrorOnlyAbove999 ==
    [][AudioRecordAct =>
          (RecordLimitLogged <=> RecordFileNumber' > MAX_RECORD_FILES)]_vars

(* the file-number parameter bytes of a record command frame *)
FileNumberBytes(f) == SubSeq(f, 5, 7)

(* C34: for every record sequence number n in 1..999 (the value after the *)
(* increment in AudioRecord()), the three file-number parameter bytes of   *)
(* the record command are the zero-padded ASCII decimal digits of n in the *)
(* order hundreds, tens, ones.                                             *)
C34_RecordDigitsAreDecimal ==
    [][(AudioRecordAct /\ RecordFileNumber' \in 1 .. MAX_RECORD_FILES) =>
          /\ Len(sent') = 1
          /\ sent'[1].state = AUDIO_SEND_RECORD
          /\ Len(sent'[1].frame) = 9
          /\ FileNumberBytes(sent'[1].frame) = Digits3(RecordFileNumber')]_vars

(* record number 907 was sent as "907": all three digits differ *)
C34_Witness ==
    /\ RecordFileNumber = 907
    /\ l_State = AUDIO_SEND_RECORD
    /\ Len(sent) = 1
    /\ FileNumberBytes(sent[1].frame) = << 57, 48, 55 >>

IsAudioInit ==
    \E vc \in CfgVC, st \in CfgST, im \in CfgIM, rq \in CfgRQ :
        AudioInitAct(vc, st, im, rq)

ConfigErrorLogged(line) == \E i \in 1 .. Len(log') : log'[i] = line

(* C35: AudioInit() logs a configuration error exactly for the values     *)
(* outside the validated ranges (volume outside 1..31, storage outside     *)
(* 0..1, input mode outside 0..2, recording quality outside 0..3), and an  *)
(* out-of-range value does not prevent the module from being activated.    *)
C35_ConfigErrorsExactlyOutOfRange ==
    [][IsAudioInit =>
          /\ ConfigErrorLogged("LogError: Volume control must be between 1 and 31")
                <=> g_AudioCfg_VC' \notin ValidVC
          /\ ConfigErrorLogged("LogError: Storage device must be between 0 and 1")
                <=> g_AudioCfg_ST' \notin ValidST
          /\ ConfigErrorLogged("LogError: Audio-recording input mode IM must be between 0 and 2")
                <=> g_AudioCfg_IM' \notin ValidIM
          /\ ConfigErrorLogged("LogError: Recording quality (bit rate) must be between 0 and 3")
                <=> g_AudioCfg_RQ' \notin ValidRQ
          /\ l_flgAudioActivate']_vars

(* the four configuration commands of the initialization sequence *)
SettingStates == AUDIO_STATE_SEND_VC .. AUDIO_STATE_SEND_RQ

(* a frame as the data sheet defines it: start and end marker, a length   *)
(* byte that counts the bytes between them, and their checksum            *)
WellFormed(f) ==
    /\ ChecksumValid(f)
    /\ f[2] = Len(f) - 2

(* C36: with any configuration value, in or out of range, each of the     *)
(* commands volume, storage device, input mode and recording quality      *)
(* still transmits a defined, well-formed frame.                          *)
C36_SettingFramesWellFormed ==
    [][(l_State' \in SettingStates /\ l_State' # l_State) =>
          /\ Len(sent') = 1
          /\ sent'[1].state = l_State'
          /\ WellFormed(sent'[1].frame)]_vars

(* C37: no command frame is handed to the serial transport while the      *)
(* peripheral is powered off; in particular AudioCheck() issues no stop    *)
(* command after a power-off that interrupted a playback or a recording.   *)
C37_NoFrameWhilePoweredOff ==
    sent # << >> => AudioPowered

(* C38: whenever the engine is in a state other than Off and Operational  *)
(* the watchdog timer is armed: right after power-on before the prompt    *)
(* arrives, after a partially received reply and after a non-matching     *)
(* reply byte.                                                            *)
C38_WaitingHasWatchdog ==
    l_State \notin {AUDIO_STATE_OFF, AUDIO_STATE_OPERATIONAL}
        => sTimerIsRunning(l_hdlWdog)

(* C39: whenever the protocol state is Operational the init-done flag is  *)
(* true, so a pending playback or record request is served once the       *)
(* engine is Operational.                                                 *)
C39_OperationalIsReady ==
    l_State = AUDIO_STATE_OPERATIONAL => l_flgAudioInitIsDone

====
